---- MODULE Spec2Model ----
(***************************************************************************)
(* A model of the LINE group moderation bot (index.js and db.js).          *)
(*                                                                         *)
(* One handler record per inbound event.  JavaScript runs a handler        *)
(* without interruption from one `await` to the next, so every action      *)
(* below is one such run-to-completion segment.  A database query takes    *)
(* effect at the store in an action of its own (DbFind, DbInsert,          *)
(* DbUpdate); the handler resumes in a later action.  Calls to the         *)
(* messaging gateway (reply, push, kick, profile) touch no state of the    *)
(* bot; they are logged in `sent` (`fired` for a timer's kick) when they    *)
(* are issued, with the outcome the gateway will give.                     *)
(***************************************************************************)
EXTENDS Integers, Sequences, FiniteSets, TLC

(***************************************************************************)
(* Bounds of the model.                                                    *)
(***************************************************************************)
MaxEvents == 3
MaxGroupEvents == 2
MaxFaults == 1

(***************************************************************************)
(* Program constants.                                                      *)
(***************************************************************************)
DEFAULT_PASSWORD_TIMEOUT_MINUTES == 2

(***************************************************************************)
(* Text.  A JavaScript string is a sequence of one-character strings.      *)
(***************************************************************************)
UpperCase == <<"A","B","C","D","E","F","G","H","I","J","K","L","M",
               "N","O","P","Q","R","S","T","U","V","W","X","Y","Z">>
LowerCase == <<"a","b","c","d","e","f","g","h","i","j","k","l","m",
               "n","o","p","q","r","s","t","u","v","w","x","y","z">>
Digits == <<"0","1","2","3","4","5","6","7","8","9">>

ToLowerChar(c) ==
    IF \E i \in 1..26 : UpperCase[i] = c
    THEN LowerCase[CHOOSE i \in 1..26 : UpperCase[i] = c]
    ELSE c

\* String.prototype.toLowerCase
ToLowerCase(s) == [i \in 1..Len(s) |-> ToLowerChar(s[i])]

\* String.prototype.trim (the only white space of the alphabet is " ")
RECURSIVE TrimLeft(_)
TrimLeft(s) == IF s # <<>> /\ Head(s) = " " THEN TrimLeft(Tail(s)) ELSE s
RECURSIVE TrimRight(_)
TrimRight(s) ==
    IF s # <<>> /\ s[Len(s)] = " " THEN TrimRight(SubSeq(s, 1, Len(s) - 1)) ELSE s
Trim(s) == TrimRight(TrimLeft(s))

\* String.prototype.split(' '): one token per separator, empty tokens kept
RECURSIVE SplitFrom(_, _)
SplitFrom(s, cur) ==
    IF s = <<>> THEN <<cur>>
    ELSE IF Head(s) = " " THEN <<cur>> \o SplitFrom(Tail(s), <<>>)
    ELSE SplitFrom(Tail(s), Append(cur, Head(s)))
Split(s) == SplitFrom(s, <<>>)

\* String.prototype.startsWith
StartsWith(s, p) == Len(s) >= Len(p) /\ SubSeq(s, 1, Len(p)) = p

\* String.prototype.includes
Includes(s, w) ==
    \E i \in 1..(Len(s) + 1) : i + Len(w) - 1 <= Len(s) /\ SubSeq(s, i, i + Len(w) - 1) = w

DigitValue(c) == (CHOOSE i \in 1..10 : Digits[i] = c) - 1
IsDigit(c) == \E i \in 1..10 : Digits[i] = c

RECURSIVE DigitPrefix(_)
DigitPrefix(s) ==
    IF s # <<>> /\ IsDigit(Head(s)) THEN <<Head(s)>> \o DigitPrefix(Tail(s)) ELSE <<>>
RECURSIVE DigitsValue(_, _)
DigitsValue(s, acc) ==
    IF s = <<>> THEN acc ELSE DigitsValue(Tail(s), 10 * acc + DigitValue(Head(s)))

\* the sign is dropped
ParseIntUnsigned(s) ==
    LET t == TrimLeft(s)
        u == IF t # <<>> /\ Head(t) \in {"-", "+"} THEN Tail(t) ELSE t
        d == DigitPrefix(u)
    IN  IF d = <<>> THEN [nan |-> TRUE, v |-> 0]
        ELSE [nan |-> FALSE, v |-> DigitsValue(d, 0)]

\* parseInt(s, 10): [nan |-> TRUE] when no digit follows the optional sign
ParseInt(s) ==
    LET t == TrimLeft(s)
        neg == t # <<>> /\ Head(t) = "-"
        u == IF t # <<>> /\ Head(t) \in {"-", "+"} THEN Tail(t) ELSE t
        d == DigitPrefix(u)
    IN  IF d = <<>> THEN [nan |-> TRUE, v |-> 0]
        ELSE [nan |-> FALSE, v |-> IF neg THEN 0 - DigitsValue(d, 0) ELSE DigitsValue(d, 0)]

(***************************************************************************)
(* The command words of handleMessage.                                     *)
(***************************************************************************)
CmdSetAdmin == <<"!","s","e","t","a","d","m","i","n">>
CmdSetPassword == <<"!","s","e","t","p","a","s","s","w","o","r","d">>
CmdSetPasswordTimeout == CmdSetPassword \o <<"t","i","m","e","o","u","t">>
CmdAddBlacklist == <<"!","a","d","d","b","l","a","c","k","l","i","s","t">>
CmdRemoveBlacklist == <<"!","r","e","m","o","v","e","b","l","a","c","k","l","i","s","t">>
CmdBlacklistUser == <<"!","b","l","a","c","k","l","i","s","t","u","s","e","r">>
CmdUnblacklistUser == <<"!","u","n">> \o Tail(CmdBlacklistUser)
CmdStatus == <<"!","s","t","a","t","u","s">>
CmdHelp == <<"!","h","e","l","p">>
CmdShowBlacklistWords ==
    <<"!","s","h","o","w","b","l","a","c","k","l","i","s","t","w","o","r","d","s">>
CmdShowBlacklistUsers ==
    <<"!","s","h","o","w","b","l","a","c","k","l","i","s","t","u","s","e","r","s">>
WordOff == <<"o","f","f">>

(***************************************************************************)
(* Data.                                                                   *)
(***************************************************************************)
Users == {"u1", "u2", "u3"}
Groups == {"g1", "g2"}

\* settings.password: SQL NULL or a string
NullPassword == [isNull |-> TRUE, s |-> <<>>]
Password(s) == [isNull |-> FALSE, s |-> s]
\* JavaScript truthiness of settings.password: null and '' are falsy
Truthy(p) == ~p.isNull /\ p.s # <<>>

\* A row of table group_settings with the column defaults of CREATE TABLE
DefaultRow ==
    [exists |-> TRUE, admins |-> {}, password |-> NullPassword,
     timeout |-> DEFAULT_PASSWORD_TIMEOUT_MINUTES, words |-> <<>>, users |-> {}]
NoRow == [DefaultRow EXCEPT !.exists = FALSE]

\* pendingVerifications[userId]: undefined, or { groupId, timeoutId }
NoEntry == [present |-> FALSE, groupId |-> "none", timeoutId |-> 0]
Entry(g, t) == [present |-> TRUE, groupId |-> g, timeoutId |-> t]

\* Webhook events
NoEvent ==
    [type |-> "none", srcType |-> "none", userId |-> "none", groupId |-> "none",
     msgType |-> "none", text |-> <<>>, mention |-> <<>>, members |-> <<>>]
Unfollow(u) == [NoEvent EXCEPT !.type = "unfollow", !.srcType = "user", !.userId = u]
DirectText(u, t) ==
    [NoEvent EXCEPT !.type = "message", !.srcType = "user", !.userId = u,
                    !.msgType = "text", !.text = t]
DirectSticker(u) ==
    [NoEvent EXCEPT !.type = "message", !.srcType = "user", !.userId = u,
                    !.msgType = "sticker"]
GroupText(g, u, t, m) ==
    [NoEvent EXCEPT !.type = "message", !.srcType = "group", !.userId = u, !.groupId = g,
                    !.msgType = "text", !.text = t, !.mention = m]
MemberJoined(g, ms) ==
    [NoEvent EXCEPT !.type = "memberJoined", !.srcType = "group", !.groupId = g,
                    !.members = ms]
MemberLeft(g, ms) ==
    [NoEvent EXCEPT !.type = "memberLeft", !.srcType = "group", !.groupId = g,
                    !.members = ms]

\* One run of handleEvent: where it is suspended and its local variables
IdleHandler ==
    [pc |-> "idle", ev |-> NoEvent, db |-> "none", fn |-> "none", dbg |-> "none",
     row |-> NoRow, settings |-> NoRow, vdata |-> NoEntry, idx |-> 0, late |-> FALSE]

VARIABLES
    store,                  \* table group_settings: group id -> row
    pendingVerifications,   \* index.js: const pendingVerifications = {}
    timers,                 \* the armed setTimeout timers
    nextTimerId,            \* the id the next setTimeout returns
    handlers,               \* the runs of handleEvent
    sent,                   \* the gateway calls each handler has issued, in order
    fired,                  \* the kicks the timer callbacks have issued
    faults                  \* store and gateway failures still to be injected

vars == <<store, pendingVerifications, timers, nextTimerId, handlers, sent, fired, faults>>

H == 1..MaxEvents

\* the events delivered so far
Delivered == Cardinality({h \in H : handlers[h].pc # "idle"})

(***************************************************************************)
(* The messaging gateway.  A call is logged when it is issued; `ok` is     *)
(* whether the promise it returns resolves.                                *)
(***************************************************************************)
Msg(h, op, to, g, text, n, s, ok) ==
    [by |-> "handler", id |-> h, op |-> op, to |-> to, group |-> g,
     text |-> text, n |-> n, s |-> s, counts |-> <<>>, ok |-> ok]
TimerMsg(t, to, g, text, ok) ==
    [by |-> "timer", id |-> t, op |-> "kick", to |-> to, group |-> g,
     text |-> text, n |-> 0, s |-> <<>>, counts |-> <<>>, ok |-> ok]

\* The outcomes of the (at most three) gateway calls of one segment
GwOutcomes == [1..3 -> BOOLEAN]
Failures(o) == Cardinality({i \in 1..3 : ~o[i]})
\* only the first k calls are made
Uses(o, k) == \A i \in 1..3 : i > k => o[i]

(***************************************************************************)
(* db.js                                                                   *)
(***************************************************************************)
Mutators ==
    {"addAdmin", "addBlacklistWords", "removeBlacklistWords",
     "addUserToBlacklist", "removeUserFromBlacklist"}
DirectUpdates == {"setPassword", "setPasswordTimeout"}

\* A handler calls a function of db.js and suspends on its first query
CallDb(hr, fn, g, pc) ==
    [hr EXCEPT !.pc = pc, !.fn = fn, !.dbg = g,
               !.db = IF fn \in DirectUpdates THEN "update" ELSE "find"]

AfterRead(fn) == IF fn \in Mutators THEN "update" ELSE "ok"

\* A handler returns: its local variables are gone
Done(hr) ==
    [hr EXCEPT !.pc = "done", !.db = "none", !.fn = "none", !.dbg = "none",
               !.row = NoRow, !.settings = NoRow]

(***************************************************************************)
(* handleMessage: the tokens of a group text message (index.js 84-86)      *)
(***************************************************************************)
MessageText(e) == Trim(e.text)
Command(e) == ToLowerCase(Split(MessageText(e))[1])
Args(e) == Tail(Split(MessageText(e)))
\* mention ? mention.mentionees[0] : null
HasMention(e) == e.mention # <<>>
MentionedUser(e) == e.mention[1]

\* only the lower-case spelling clears the password
NewPasswordExact(e) ==
    IF Args(e)[1] = WordOff THEN NullPassword ELSE Password(Args(e)[1])

\* handleSetPassword: the value handed to db.setPassword
NewPassword(e) ==
    IF ToLowerCase(Args(e)[1]) = WordOff THEN NullPassword ELSE Password(Args(e)[1])

(***************************************************************************)
(* db.js: the value each UPDATE writes.  `read` is the row the function    *)
(* got from getGroupSettings, `cur` the row the UPDATE meets.              *)
(***************************************************************************)
AddAdmin(cur, read, u) == [cur EXCEPT !.admins = read.admins \cup {u}]
\* Array.from(new Set(a).add(x)...): insertion order, no duplicate
RECURSIVE AddAll(_, _)
AddAll(a, ws) ==
    IF ws = <<>> THEN a
    ELSE AddAll(IF \E i \in 1..Len(a) : a[i] = ToLowerCase(Head(ws))
                THEN a ELSE Append(a, ToLowerCase(Head(ws))), Tail(ws))
AddBlacklistWords(cur, read, ws) == [cur EXCEPT !.words = AddAll(read.words, ws)]
\* the whole list is dropped
RemoveBlacklistWordsAll(cur, read, ws) == [cur EXCEPT !.words = <<>>]
RemoveBlacklistWords(cur, read, ws) ==
    [cur EXCEPT !.words =
        SelectSeq(read.words, LAMBDA w : \A i \in 1..Len(ws) : ToLowerCase(ws[i]) # w)]
AddUserToBlacklist(cur, read, u) == [cur EXCEPT !.users = read.users \cup {u}]
RemoveUserFromBlacklist(cur, read, u) == [cur EXCEPT !.users = read.users \ {u}]
SetPassword(cur, p) == [cur EXCEPT !.password = p]
SetPasswordTimeout(cur, m) == [cur EXCEPT !.timeout = m]

\* The admin addAdmin is called with: the sender in the bootstrap (index.js 178),
\* the mentioned user otherwise (index.js 188)
\* the mentioned user is added whenever there is one
NewAdminMentioned(hr) ==
    IF HasMention(hr.ev) THEN MentionedUser(hr.ev) ELSE hr.ev.userId

NewAdmin(hr) ==
    IF hr.pc = "handleSetAdmin_178" THEN hr.ev.userId ELSE MentionedUser(hr.ev)

Updated(cur, hr) ==
    CASE hr.fn = "addAdmin" -> AddAdmin(cur, hr.row, NewAdmin(hr))
      [] hr.fn = "addBlacklistWords" -> AddBlacklistWords(cur, hr.row, Args(hr.ev))
      [] hr.fn = "removeBlacklistWords" -> RemoveBlacklistWords(cur, hr.row, Args(hr.ev))
      [] hr.fn = "addUserToBlacklist" -> AddUserToBlacklist(cur, hr.row, MentionedUser(hr.ev))
      [] hr.fn = "removeUserFromBlacklist" ->
            RemoveUserFromBlacklist(cur, hr.row, MentionedUser(hr.ev))
      [] hr.fn = "setPassword" -> SetPassword(cur, NewPassword(hr.ev))
      [] hr.fn = "setPasswordTimeout" -> SetPasswordTimeout(cur, ParseInt(Args(hr.ev)[1]).v)

\* getGroupSettings: SELECT * FROM group_settings WHERE group_id = $1
DbFind(h) ==
    /\ handlers[h].db = "find"
    /\ LET hr == handlers[h]
           r == store[hr.dbg]
       IN  handlers' = [handlers EXCEPT ![h] =
                IF r.exists THEN [hr EXCEPT !.row = r, !.db = AfterRead(hr.fn)]
                ELSE [hr EXCEPT !.db = "insert"]]
    /\ UNCHANGED <<store, pendingVerifications, timers, nextTimerId, sent, fired, faults>>

\* getGroupSettings: INSERT INTO group_settings (group_id) VALUES ($1) RETURNING *
\* group_id is the primary key: the INSERT fails when the row exists by now
DbInsert(h) ==
    /\ handlers[h].db = "insert"
    /\ LET hr == handlers[h]
       IN  IF store[hr.dbg].exists
           THEN /\ handlers' = [handlers EXCEPT ![h] = [hr EXCEPT !.db = "err"]]
                /\ UNCHANGED store
           ELSE /\ store' = [store EXCEPT ![hr.dbg] = DefaultRow]
                /\ handlers' = [handlers EXCEPT ![h] =
                        [hr EXCEPT !.row = DefaultRow, !.db = AfterRead(hr.fn)]]
    /\ UNCHANGED <<pendingVerifications, timers, nextTimerId, sent, fired, faults>>

\* UPDATE group_settings SET <column> = $1 WHERE group_id = $2
DbUpdate(h) ==
    /\ handlers[h].db = "update"
    /\ LET hr == handlers[h]
       IN  /\ store' = [store EXCEPT ![hr.dbg] =
                    IF @.exists THEN Updated(@, hr) ELSE @]
           /\ handlers' = [handlers EXCEPT ![h] = [hr EXCEPT !.db = "ok"]]
    /\ UNCHANGED <<pendingVerifications, timers, nextTimerId, sent, fired, faults>>

\* pool.connect() or a query rejects
DbFault(h) ==
    /\ handlers[h].db \in {"find", "insert", "update"}
    /\ faults > 0
    /\ faults' = faults - 1
    /\ handlers' = [handlers EXCEPT ![h] = [@ EXCEPT !.db = "err"]]
    /\ UNCHANGED <<store, pendingVerifications, timers, nextTimerId, sent, fired>>

(***************************************************************************)
(* handleEvent, up to its first await (index.js 44-75)                     *)
(***************************************************************************)
NextIdle == CHOOSE h \in H : handlers[h].pc = "idle" /\ \A k \in 1..(h - 1) : handlers[k].pc # "idle"

\* handlePasswordAttempt is entered without the test of line 52
StartedUnchecked(hr, e) ==
    IF e.type = "unfollow" THEN Done(hr)
    ELSE IF e.srcType # "group" THEN
        IF e.type = "message"
        THEN CallDb([hr EXCEPT !.vdata = pendingVerifications[e.userId]],
                    "getGroupSettings",
                    IF pendingVerifications[e.userId].present
                    THEN pendingVerifications[e.userId].groupId ELSE "g1",
                    "handlePasswordAttempt_353")
        ELSE Done(hr)
    ELSE IF e.type = "message" THEN
        IF e.msgType # "text" THEN Done(hr)
        ELSE CallDb(hr, "isUserBlacklisted", e.groupId, "handleMessage_82")
    ELSE IF e.type = "memberJoined" THEN
        CallDb(hr, "getGroupSettings", e.groupId, "handleMemberJoined_141")
    ELSE Done(hr)

Started(hr, e) ==
    IF e.type = "unfollow" THEN Done(hr)
    ELSE IF e.srcType # "group" THEN
        IF e.type = "message" /\ pendingVerifications[e.userId].present
        THEN \* handlePasswordAttempt, index.js 349-353
             CallDb([hr EXCEPT !.vdata = pendingVerifications[e.userId]],
                    "getGroupSettings", pendingVerifications[e.userId].groupId,
                    "handlePasswordAttempt_353")
        ELSE Done(hr)
    ELSE IF e.type = "message" THEN
        IF e.msgType # "text" THEN Done(hr)
        ELSE CallDb(hr, "isUserBlacklisted", e.groupId, "handleMessage_82")
    ELSE IF e.type = "memberJoined" THEN
        CallDb(hr, "getGroupSettings", e.groupId, "handleMemberJoined_141")
    ELSE Done(hr)

\* history: a timer of the sender has already expired and kicked
ExpiredBefore(e) == \E k \in fired : k.to = e.userId

\* an unfollow that leaves the pending verification where it is
HandleEventKeeping(e) ==
    /\ \E h \in H : handlers[h].pc = "idle"
    /\ handlers' = [handlers EXCEPT ![NextIdle] =
            Started([IdleHandler EXCEPT !.ev = e, !.late = ExpiredBefore(e)], e)]
    /\ UNCHANGED <<store, pendingVerifications, timers, nextTimerId, sent, fired, faults>>

HandleEvent(e) ==
    /\ \E h \in H : handlers[h].pc = "idle"
    /\ handlers' = [handlers EXCEPT ![NextIdle] =
            Started([IdleHandler EXCEPT !.ev = e, !.late = ExpiredBefore(e)], e)]
    /\ pendingVerifications' =
            IF e.type = "unfollow"
            THEN [pendingVerifications EXCEPT ![e.userId] = NoEntry]
            ELSE pendingVerifications
    /\ UNCHANGED <<store, timers, nextTimerId, sent, fired, faults>>

\* a catch that misses the blacklist test of handleMessage
UncaughtAfterTest ==
    {"handlePasswordAttempt_353", "handleMessage_94",
     "handleMemberJoined_141", "handleMemberJoined_144",
     "checkMessageForBlacklist_367", "checkMessageForBlacklist_368"}

\* handleEvent's catch: an await of a handler outside every inner try throws
Uncaught ==
    {"handlePasswordAttempt_353", "handleMessage_82", "handleMessage_94",
     "handleMemberJoined_141", "handleMemberJoined_144",
     "checkMessageForBlacklist_367", "checkMessageForBlacklist_368"}

\* a catch that also drops the pending verification of the user
HandleEventCatchDropping(h) ==
    /\ handlers[h].db = "err"
    /\ handlers[h].pc \in Uncaught
    /\ handlers' = [handlers EXCEPT ![h] = Done(@)]
    /\ pendingVerifications' =
            [u \in Users |-> IF u = handlers[h].ev.userId THEN NoEntry
                             ELSE pendingVerifications[u]]
    /\ UNCHANGED <<store, timers, nextTimerId, sent, fired, faults>>

HandleEventCatch(h) ==
    /\ handlers[h].db = "err"
    /\ handlers[h].pc \in Uncaught
    /\ handlers' = [handlers EXCEPT ![h] = Done(@)]
    /\ UNCHANGED <<store, pendingVerifications, timers, nextTimerId, sent, fired, faults>>

(***************************************************************************)
(* handlePasswordAttempt after `await db.getGroupSettings` (index.js       *)
(* 355-363)                                                                *)
(***************************************************************************)
\* a comparison that ignores the letter case
PasswordMatchesAnyCase(e, settings) ==
    e.msgType = "text" /\ ~settings.password.isNull
    /\ ToLowerCase(e.text) = ToLowerCase(settings.password.s)

\* a comparison with the password the group had at the join
PasswordMatchesAtJoin(e, settings) ==
    e.msgType = "text" /\ e.text = <<"l","e","t","m","e","i","n">>

\* message.type === 'text' && message.text === settings.password
PasswordMatches(e, settings) ==
    e.msgType = "text" /\ ~settings.password.isNull /\ e.text = settings.password.s

PasswordAttemptReplies(h, hr, o) ==
    IF PasswordMatches(hr.ev, hr.row)
    THEN <<Msg(h, "reply", hr.ev.userId, "none", "Password accepted. Welcome!",
               0, <<>>, o[1])>>
    ELSE <<Msg(h, "reply", hr.ev.userId, "none", "Incorrect password.", 0, <<>>, o[1])>>
         \o (IF o[1]
             THEN <<Msg(h, "kick", hr.ev.userId, hr.vdata.groupId,
                        "Incorrect password provided.", 0, <<>>, o[2])>>
             ELSE <<>>)

HandlePasswordAttempt(h) ==
    /\ handlers[h].pc = "handlePasswordAttempt_353"
    /\ handlers[h].db = "ok"
    /\ LET hr == handlers[h]
       IN  \E o \in GwOutcomes :
            /\ Failures(o) <= faults
            /\ Uses(o, Len(PasswordAttemptReplies(h, hr, o)))
            /\ timers' = {t \in timers : t.id # hr.vdata.timeoutId}
            /\ pendingVerifications' = [pendingVerifications EXCEPT ![hr.ev.userId] = NoEntry]
            /\ sent' = [sent EXCEPT ![h] = @ \o PasswordAttemptReplies(h, hr, o)]
            /\ faults' = faults - Failures(o)
            /\ handlers' = [handlers EXCEPT ![h] = Done(hr)]
    /\ UNCHANGED <<store, nextTimerId, fired>>

(***************************************************************************)
(* handleMemberJoined (index.js 140-167)                                   *)
(***************************************************************************)
TimeoutMinutes(settings) ==
    IF settings.timeout # 0 THEN settings.timeout ELSE DEFAULT_PASSWORD_TIMEOUT_MINUTES

\* after `await db.getGroupSettings(groupId)`: enter the loop
HandleMemberJoined(h) ==
    /\ handlers[h].pc = "handleMemberJoined_141"
    /\ handlers[h].db = "ok"
    /\ LET hr == [handlers[h] EXCEPT !.settings = handlers[h].row, !.idx = 1]
       IN  handlers' = [handlers EXCEPT ![h] =
                IF hr.ev.members = <<>> THEN Done(hr)
                ELSE CallDb(hr, "isUserBlacklisted", hr.ev.groupId, "handleMemberJoined_144")]
    /\ UNCHANGED <<store, pendingVerifications, timers, nextTimerId, sent, fired, faults>>

\* the loop goes on to the next member, or ends
NextMember(hr) ==
    IF hr.idx < Len(hr.ev.members)
    THEN CallDb([hr EXCEPT !.idx = hr.idx + 1], "isUserBlacklisted", hr.ev.groupId,
                "handleMemberJoined_144")
    ELSE Done(hr)

\* the blacklist of the group is not consulted
MemberIsBlacklistedNever(hr) == hr.ev.members[hr.idx] \in {}

\* the member is on the blacklist: index.js 144-147
MemberIsBlacklisted(hr) == hr.ev.members[hr.idx] \in hr.row.users
\* the group is password protected: index.js 149
MemberNeedsPassword(hr) == Truthy(hr.settings.password)

\* one member of the event, after `await db.isUserBlacklisted`
HandleMember(h) ==
    /\ handlers[h].pc = "handleMemberJoined_144"
    /\ handlers[h].db = "ok"
    /\ LET hr == handlers[h]
           member == hr.ev.members[hr.idx]
           g == hr.ev.groupId
       IN  \E o \in GwOutcomes :
            /\ Failures(o) <= faults
            /\ faults' = faults - Failures(o)
            /\ IF MemberIsBlacklisted(hr) THEN
                    /\ Uses(o, 1)
                    /\ sent' = [sent EXCEPT ![h] = Append(@, Msg(h, "kick", member, g,
                                    "A blacklisted user tried to join.", 0, <<>>, o[1]))]
                    /\ handlers' = [handlers EXCEPT ![h] = NextMember(hr)]
                    /\ UNCHANGED <<pendingVerifications, timers, nextTimerId>>
               ELSE IF MemberNeedsPassword(hr) THEN
                    /\ Uses(o, 1)
                    /\ timers' = timers \cup
                            {[id |-> nextTimerId, userId |-> member, groupId |-> g,
                              minutes |-> TimeoutMinutes(hr.settings)]}
                    /\ nextTimerId' = nextTimerId + 1
                    /\ pendingVerifications' =
                            [pendingVerifications EXCEPT ![member] = Entry(g, nextTimerId)]
                    /\ sent' = [sent EXCEPT ![h] = Append(@, Msg(h, "push", member, "none",
                                    "Welcome! This group requires a password.",
                                    TimeoutMinutes(hr.settings), <<>>, o[1]))]
                    /\ handlers' = [handlers EXCEPT ![h] =
                            IF o[1] THEN NextMember(hr) ELSE Done(hr)]
               ELSE /\ Uses(o, 0)
                    /\ handlers' = [handlers EXCEPT ![h] = NextMember(hr)]
                    /\ UNCHANGED <<pendingVerifications, timers, nextTimerId, sent>>
    /\ UNCHANGED <<store, fired>>

\* setTimeout: a timer armed earlier with a delay that is not longer expires first
Expires(t) == \A t2 \in timers : t2.id < t.id => t2.minutes > t.minutes

\* the callback handed to setTimeout (index.js 153-159)
TimerFire(t) ==
    /\ t \in timers
    /\ Expires(t)
    /\ timers' = timers \ {t}
    /\ IF pendingVerifications[t.userId].present
       THEN \E ok \in BOOLEAN :
                /\ ~ok => faults > 0
                /\ faults' = IF ok THEN faults ELSE faults - 1
                /\ fired' = fired \cup {TimerMsg(t.id, t.userId, t.groupId,
                                            "Password verification timed out.", ok)}
                /\ pendingVerifications' =
                        [pendingVerifications EXCEPT ![t.userId] = NoEntry]
       ELSE UNCHANGED <<pendingVerifications, fired, faults>>
    /\ UNCHANGED <<store, nextTimerId, handlers, sent>>

(***************************************************************************)
(* The segments of the command handlers.  Each gives the handler's next    *)
(* record and the gateway calls it issues; o[k] is the outcome of the      *)
(* k-th call.                                                              *)
(***************************************************************************)
Result(hr, out) == [hr |-> hr, out |-> out]
Push(h, hr, text, n, s, ok) == Msg(h, "push", hr.ev.userId, "none", text, n, s, ok)
Reply(h, hr, text, ok) == Msg(h, "reply", hr.ev.userId, hr.ev.groupId, text, 0, <<>>, ok)
Kick(h, hr, u, text, s, ok) == Msg(h, "kick", u, hr.ev.groupId, text, 0, s, ok)

\* db.isAdmin / db.isUserBlacklisted on the row getGroupSettings returned
\* every sender passes for an admin
IsAdminAnyone(row, u) == u \in Users
\* no sender passes for an admin
IsAdminNobody(row, u) == u \in {}
\* every sender passes for an admin while the group has none
IsAdminOrNone(row, u) == u \in row.admins \/ row.admins = {}
IsAdmin(row, u) == u \in row.admins

\* no sender passes for blacklisted
IsUserBlacklistedNever(row, u) == u \in {}
IsUserBlacklisted(row, u) == u \in row.users

\* handleMessage after `await db.isUserBlacklisted` (index.js 82-96, 136)
HandleMessageStep(h, hr, o) ==
    IF IsUserBlacklisted(hr.row, hr.ev.userId)
    THEN Result(Done(hr), <<Kick(h, hr, hr.ev.userId, "User is on the blacklist.", <<>>, o[1])>>)
    ELSE IF StartsWith(Command(hr.ev), <<"!">>)
    THEN IF Command(hr.ev) = CmdSetAdmin
         THEN Result(CallDb(hr, "getGroupSettings", hr.ev.groupId, "handleSetAdmin_175"), <<>>)
         ELSE Result(CallDb(hr, "isAdmin", hr.ev.groupId, "handleMessage_94"), <<>>)
    ELSE Result(CallDb(hr, "isAdmin", hr.ev.groupId, "checkMessageForBlacklist_367"), <<>>)

\* the switch of handleMessage, and each command handler up to its first
\* await (index.js 94-134, 202, 213, 224-226, 240-242, 264, 269-271, 285-286)
DispatchStep(h, hr, o) ==
    LET e == hr.ev
        c == Command(e)
        g == e.groupId
        usage(text) == Result(Done(hr), <<Push(h, hr, text, 0, <<>>, o[1])>>)
    IN  IF ~IsAdmin(hr.row, e.userId) THEN Result(Done(hr), <<>>)
        ELSE CASE c = CmdSetPassword ->
                    IF Args(e) = <<>> THEN usage("Usage: !setpassword [new_password|off]")
                    ELSE Result(CallDb(hr, "setPassword", g, "handleSetPassword_230"), <<>>)
               [] c = CmdSetPasswordTimeout ->
                    IF Args(e) = <<>> THEN usage("Usage: !setpasswordtimeout [minutes]")
                    ELSE IF ParseInt(Args(e)[1]).nan \/ ParseInt(Args(e)[1]).v <= 0
                    THEN usage("Please provide a valid number of minutes.")
                    ELSE Result(CallDb(hr, "setPasswordTimeout", g,
                                       "handleSetPasswordTimeout_243"), <<>>)
               [] c = CmdAddBlacklist ->
                    IF Args(e) = <<>> THEN usage("Usage: !addblacklist [word]...")
                    ELSE Result(CallDb(hr, "addBlacklistWords", g,
                                       "handleAddBlacklistWords_203"), <<>>)
               [] c = CmdRemoveBlacklist ->
                    IF Args(e) = <<>> THEN usage("Usage: !removeblacklist [word]...")
                    ELSE Result(CallDb(hr, "removeBlacklistWords", g,
                                       "handleRemoveBlacklistWords_214"), <<>>)
               [] c = CmdBlacklistUser ->
                    IF ~HasMention(e) THEN usage("Usage: !blacklistuser @username")
                    ELSE Result(CallDb(hr, "isAdmin", g, "handleBlacklistUser_271"), <<>>)
               [] c = CmdUnblacklistUser ->
                    IF ~HasMention(e) THEN usage("Usage: !unblacklistuser @username")
                    ELSE Result(CallDb(hr, "removeUserFromBlacklist", g,
                                       "handleUnblacklistUser_288"), <<>>)
               [] c = CmdStatus ->
                    Result(CallDb(hr, "getGroupSettings", g, "handleStatusCommand_299"), <<>>)
               [] c = CmdShowBlacklistWords ->
                    Result(CallDb(hr, "getGroupSettings", g, "handleShowBlacklistWords_318"), <<>>)
               [] c = CmdShowBlacklistUsers ->
                    Result(CallDb(hr, "getGroupSettings", g, "handleShowBlacklistUsers_330"), <<>>)
               [] c = CmdHelp -> usage("--- Admin Commands ---")
               [] OTHER -> Result(Done(hr), <<Push(h, hr, "Unknown command", 0, c, o[1])>>)

\* handleSetAdmin (index.js 173-198)
SetAdminStep(h, hr, o) ==
    LET e == hr.ev
        g == e.groupId
        push(text) == Result(Done(hr), <<Push(h, hr, text, 0, <<>>, o[1])>>)
        reply(text) == Result(Done(hr), <<Reply(h, hr, text, o[1])>>)
    IN  IF hr.db = "err" THEN reply("An error occurred while setting an admin.")
        ELSE CASE hr.pc = "handleSetAdmin_175" ->
                    IF hr.row.admins = {}
                    THEN Result(CallDb(hr, "addAdmin", g, "handleSetAdmin_178"), <<>>)
                    ELSE Result(CallDb(hr, "isAdmin", g, "handleSetAdmin_183"), <<>>)
               [] hr.pc = "handleSetAdmin_178" -> reply("You are now the first admin.")
               [] hr.pc = "handleSetAdmin_183" ->
                    IF ~IsAdmin(hr.row, e.userId) THEN Result(Done(hr), <<>>)
                    ELSE IF ~HasMention(e) THEN push("Usage: !setadmin @username")
                    ELSE Result(CallDb(hr, "isAdmin", g, "handleSetAdmin_186"), <<>>)
               [] hr.pc = "handleSetAdmin_186" ->
                    IF IsAdmin(hr.row, MentionedUser(e))
                    THEN push("This user is already an admin.")
                    ELSE Result(CallDb(hr, "addAdmin", g, "handleSetAdmin_188"), <<>>)
               [] hr.pc = "handleSetAdmin_188" -> push("New admin added successfully.")

\* the admin test is left out
MentionIsAdminNever(hr) == MentionedUser(hr.ev) \in {}

\* await db.isAdmin(groupId, mentionedUser.userId) (index.js 271)
MentionIsAdmin(hr) == IsAdmin(hr.row, MentionedUser(hr.ev))

\* handleBlacklistUser after its awaits (index.js 271-280)
BlacklistUserStep(h, hr, o) ==
    LET e == hr.ev
        x == MentionedUser(e)
        degraded(k) ==
            Push(h, hr, "User ID added to blacklist, but could not be removed from group (may have already left).",
                 0, <<>>, o[k])
    IN  IF hr.db = "err" THEN Result(Done(hr), <<degraded(1)>>)
        ELSE IF hr.pc = "handleBlacklistUser_271"
        THEN IF MentionIsAdmin(hr)
             THEN Result(Done(hr), <<Push(h, hr, "You cannot blacklist an admin.", 0, <<>>, o[1])>>)
             ELSE Result(CallDb(hr, "addUserToBlacklist", e.groupId, "handleBlacklistUser_273"), <<>>)
        ELSE \* line 274 getGroupMemberProfile, 275 kickUser, 276 pushMessage
             IF ~o[1]
             THEN Result(Done(hr), <<Msg(h, "profile", x, e.groupId, "getGroupMemberProfile",
                                         0, <<>>, FALSE),
                                     degraded(2)>>)
             ELSE Result(Done(hr), <<Msg(h, "profile", x, e.groupId, "getGroupMemberProfile",
                                         0, <<>>, TRUE),
                                     Kick(h, hr, x, "User has been blacklisted.", <<>>, o[2]),
                                     Push(h, hr, "has been blacklisted and removed.",
                                          0, <<>>, o[3])>>)

\* the count of the blacklisted words is reported for the users as well
StatusTextWords(h, hr, ok) ==
    [Push(h, hr, IF Truthy(hr.row.password) THEN "Password Protection: Enabled"
                 ELSE "Password Protection: Disabled",
          IF Truthy(hr.row.password) THEN TimeoutMinutes(hr.row) ELSE 0, <<>>, ok)
     EXCEPT !.counts = <<Cardinality(hr.row.admins), Len(hr.row.words), Len(hr.row.words)>>]

\* handleStatusCommand: the overview it pushes (index.js 300-309)
StatusText(h, hr, ok) ==
    [Push(h, hr, IF Truthy(hr.row.password) THEN "Password Protection: Enabled"
                 ELSE "Password Protection: Disabled",
          IF Truthy(hr.row.password) THEN TimeoutMinutes(hr.row) ELSE 0, <<>>, ok)
     EXCEPT !.counts = <<Cardinality(hr.row.admins), Len(hr.row.words),
                         Cardinality(hr.row.users)>>]

\* the commands with one await of db.js: the message pushed after it
\* (index.js 204/207, 215/218, 228-234, 244/247, 290/293, 301-312, 319-324, 331-340)
AfterDbStep(h, hr, o) ==
    LET e == hr.ev
        push(text, n, s) == Result(Done(hr), <<Push(h, hr, text, n, s, o[1])>>)
        failed == hr.db = "err"
    IN  CASE hr.pc = "handleSetPassword_230" ->
                IF failed THEN push("An error occurred while setting the password.", 0, <<>>)
                ELSE IF NewPassword(e).isNull
                THEN push("Password protection has been disabled.", 0, <<>>)
                ELSE push("The group password has been set to:", 0, NewPassword(e).s)
          [] hr.pc = "handleSetPasswordTimeout_243" ->
                IF failed THEN push("An error occurred while setting the timeout.", 0, <<>>)
                ELSE push("Password timeout has been set to", ParseInt(Args(e)[1]).v, <<>>)
          [] hr.pc = "handleAddBlacklistWords_203" ->
                IF failed THEN push("An error occurred while adding to the blacklist.", 0, <<>>)
                ELSE push("Added word(s) to blacklist.", Len(Args(e)), <<>>)
          [] hr.pc = "handleRemoveBlacklistWords_214" ->
                IF failed
                THEN push("An error occurred while removing from the blacklist.", 0, <<>>)
                ELSE push("Removed word(s) from blacklist.", Len(Args(e)), <<>>)
          [] hr.pc = "handleUnblacklistUser_288" ->
                \* a failing getProfile is caught (line 289): 'The user' is named instead
                IF failed THEN push("An error occurred while unblacklisting the user.", 0, <<>>)
                ELSE push("has been unblacklisted.", 0, <<>>)
          [] hr.pc = "handleStatusCommand_299" ->
                IF failed THEN push("Error fetching status.", 0, <<>>)
                ELSE Result(Done(hr), <<StatusText(h, hr, o[1])>>)
          [] hr.pc = "handleShowBlacklistWords_318" ->
                IF failed
                THEN push("An error occurred while fetching the word blacklist.", 0, <<>>)
                ELSE push("--- Blacklisted Words ---", Len(hr.row.words), <<>>)
          [] hr.pc = "handleShowBlacklistUsers_330" ->
                IF failed
                THEN push("An error occurred while fetching the user blacklist.", 0, <<>>)
                ELSE push("--- Blacklisted Users ---", Cardinality(hr.row.users), <<>>)

\* checkMessageForBlacklist (index.js 366-372)
FoundWord(words, text) ==
    LET hits == {i \in 1..Len(words) : Includes(ToLowerCase(text), words[i])}
    IN  IF hits = {} THEN [found |-> FALSE, word |-> <<>>]
        ELSE [found |-> TRUE, word |-> words[CHOOSE i \in hits : \A j \in hits : i <= j]]

CheckBlacklistStep(h, hr, o) ==
    IF hr.pc = "checkMessageForBlacklist_367"
    THEN IF IsAdmin(hr.row, hr.ev.userId) THEN Result(Done(hr), <<>>)
         ELSE Result(CallDb(hr, "getGroupSettings", hr.ev.groupId,
                            "checkMessageForBlacklist_368"), <<>>)
    ELSE LET f == FoundWord(hr.row.words, MessageText(hr.ev))
         IN  \* if (foundWord): the empty string is falsy
             IF f.found /\ f.word # <<>>
             THEN Result(Done(hr), <<Kick(h, hr, hr.ev.userId, "Used blacklisted word:",
                                          f.word, o[1])>>)
             ELSE Result(Done(hr), <<>>)

\* A segment that touches neither the registry nor the timers takes effect
Apply(h, r, o) ==
    /\ Failures(o) <= faults
    /\ Uses(o, Len(r.out))
    /\ handlers' = [handlers EXCEPT ![h] = r.hr]
    /\ sent' = [sent EXCEPT ![h] = @ \o r.out]
    /\ faults' = faults - Failures(o)
    /\ UNCHANGED <<store, pendingVerifications, timers, nextTimerId, fired>>

SetAdminPcs ==
    {"handleSetAdmin_175", "handleSetAdmin_178", "handleSetAdmin_183",
     "handleSetAdmin_186", "handleSetAdmin_188"}
BlacklistUserPcs == {"handleBlacklistUser_271", "handleBlacklistUser_273"}
AfterDbPcs ==
    {"handleSetPassword_230", "handleSetPasswordTimeout_243", "handleAddBlacklistWords_203",
     "handleRemoveBlacklistWords_214", "handleUnblacklistUser_288",
     "handleStatusCommand_299", "handleShowBlacklistWords_318",
     "handleShowBlacklistUsers_330"}
CheckBlacklistPcs == {"checkMessageForBlacklist_367", "checkMessageForBlacklist_368"}

HandleMessage(h) ==
    /\ handlers[h].pc = "handleMessage_82"
    /\ handlers[h].db = "ok"
    /\ \E o \in GwOutcomes : Apply(h, HandleMessageStep(h, handlers[h], o), o)

Dispatch(h) ==
    /\ handlers[h].pc = "handleMessage_94"
    /\ handlers[h].db = "ok"
    /\ \E o \in GwOutcomes : Apply(h, DispatchStep(h, handlers[h], o), o)

HandleSetAdmin(h) ==
    /\ handlers[h].pc \in SetAdminPcs
    /\ handlers[h].db \in {"ok", "err"}
    /\ \E o \in GwOutcomes : Apply(h, SetAdminStep(h, handlers[h], o), o)

HandleBlacklistUser(h) ==
    /\ handlers[h].pc \in BlacklistUserPcs
    /\ handlers[h].db \in {"ok", "err"}
    /\ \E o \in GwOutcomes : Apply(h, BlacklistUserStep(h, handlers[h], o), o)

AfterDb(h) ==
    /\ handlers[h].pc \in AfterDbPcs
    /\ handlers[h].db \in {"ok", "err"}
    /\ \E o \in GwOutcomes : Apply(h, AfterDbStep(h, handlers[h], o), o)

CheckMessageForBlacklist(h) ==
    /\ handlers[h].pc \in CheckBlacklistPcs
    /\ handlers[h].db = "ok"
    /\ \E o \in GwOutcomes : Apply(h, CheckBlacklistStep(h, handlers[h], o), o)

(***************************************************************************)
(* Specifications.  Each starts from a store the admin commands can have   *)
(* produced and delivers events of one part of the bot.                    *)
(***************************************************************************)
Letmein == <<"l","e","t","m","e","i","n">>
LetmeinCapital == <<"L","e","t","m","e","i","n">>
Open == <<"o","p","e","n">>
Spam == <<"S","p","a","m">>

InitWith(st, f) ==
    /\ store = st
    /\ pendingVerifications = [u \in Users |-> NoEntry]
    /\ timers = {}
    /\ nextTimerId = 1
    /\ handlers = [h \in H |-> IdleHandler]
    /\ sent = [h \in H |-> <<>>]
    /\ fired = {}
    /\ faults = f

\* u3 has bootstrapped both groups and set their passwords; g1 blacklists u2
ConfiguredStore ==
    [g \in Groups |->
        IF g = "g1"
        THEN [DefaultRow EXCEPT !.admins = {"u3"}, !.password = Password(Letmein),
                                !.timeout = 1, !.users = {"u2"}]
        ELSE [DefaultRow EXCEPT !.admins = {"u3"}, !.password = Password(Open)]]

\* as ConfiguredStore, but g2 has no password
JoinStore == [ConfiguredStore EXCEPT !["g2"].password = NullPassword]

\* no group has a row yet
FreshStore == [g \in Groups |-> NoRow]

(* Password attempts: u1 joins g1 and answers in direct messages. *)
AttemptEvents ==
    {MemberJoined("g1", <<"u1">>), DirectText("u1", Letmein),
     DirectText("u1", LetmeinCapital), DirectSticker("u1")}

Init == InitWith(ConfiguredStore, 0)

Next ==
    \/ \E e \in AttemptEvents : HandleEvent(e)
    \/ \E h \in H : DbFind(h)
    \/ \E h \in H : HandlePasswordAttempt(h)
    \/ \E h \in H : HandleMemberJoined(h)
    \/ \E h \in H : HandleMember(h)
    \/ \E t \in timers : TimerFire(t)

Spec == Init /\ [][Next]_vars

(* Expiry: u1 joins g1 and g2, unfollows, and the timers fire. *)
ExpiryEvents ==
    {MemberJoined("g1", <<"u1">>), MemberJoined("g2", <<"u1">>), Unfollow("u1"),
     DirectText("u1", Letmein)}

ExpiryNext ==
    \/ \E e \in ExpiryEvents : HandleEvent(e)
    \/ \E h \in H : DbFind(h)
    \/ \E h \in H : HandlePasswordAttempt(h)
    \/ \E h \in H : HandleMemberJoined(h)
    \/ \E h \in H : HandleMember(h)
    \/ \E t \in timers : TimerFire(t)

ExpirySpec == Init /\ [][ExpiryNext]_vars

(* ExpirySpec where the store answers, every ready continuation runs and   *)
(* every armed timer fires when its time has come.                         *)
ExpiryFairSpec ==
    /\ ExpirySpec
    /\ WF_vars(\E h \in H : \/ DbFind(h) \/ HandlePasswordAttempt(h)
                            \/ HandleMemberJoined(h) \/ HandleMember(h))
    /\ WF_vars(\E t \in timers : TimerFire(t))

(* Joins of several members, with store and gateway failures. *)
JoinEvents ==
    {MemberJoined("g1", <<"u2", "u1">>), MemberJoined("g1", <<"u1", "u2">>),
     MemberJoined("g2", <<"u2", "u1">>)}

JoinInit == InitWith(JoinStore, MaxFaults)

JoinNext ==
    \/ \E e \in JoinEvents : Delivered < MaxGroupEvents /\ HandleEvent(e)
    \/ \E h \in H : DbFind(h)
    \/ \E h \in H : DbFault(h)
    \/ \E h \in H : HandleEventCatch(h)
    \/ \E h \in H : HandleMemberJoined(h)
    \/ \E h \in H : HandleMember(h)
    \/ \E t \in timers : TimerFire(t)

JoinSpec == JoinInit /\ [][JoinNext]_vars

(* The bootstrap: `!setadmin` in a group that has no row yet. *)
BootstrapEvents ==
    {GroupText("g1", "u1", CmdSetAdmin, <<>>),
     GroupText("g1", "u2", CmdSetAdmin, <<"u1">>),
     GroupText("g1", "u1", CmdSetAdmin, <<"u3">>)}

BootstrapInit == InitWith(FreshStore, 0)

BootstrapNext ==
    \/ \E e \in BootstrapEvents : Delivered < MaxGroupEvents /\ HandleEvent(e)
    \/ \E h \in H : DbFind(h)
    \/ \E h \in H : DbInsert(h)
    \/ \E h \in H : DbUpdate(h)
    \/ \E h \in H : HandleEventCatch(h)
    \/ \E h \in H : HandleMessage(h)
    \/ \E h \in H : HandleSetAdmin(h)

BootstrapSpec == BootstrapInit /\ [][BootstrapNext]_vars

(* Commands in g1 from the admin u3, from u1 and from the blacklisted u2. *)
CommandTexts ==
    {<<CmdSetPassword \o <<" ">> \o Open, <<>>>>,
     <<CmdSetPasswordTimeout \o <<" ", "5">>, <<>>>>,
     <<CmdAddBlacklist \o <<" ">> \o Spam, <<>>>>,
     <<CmdBlacklistUser, <<"u1">>>>}

CommandEvents ==
    {GroupText("g1", u, c[1], c[2]) : u \in {"u1", "u3"}, c \in CommandTexts}
        \cup {GroupText("g1", "u2", CmdSetPassword \o <<" ">> \o Open, <<>>)}

CommandInit == InitWith(ConfiguredStore, 0)

CommandNext ==
    \/ \E e \in CommandEvents : Delivered < MaxGroupEvents /\ HandleEvent(e)
    \/ \E h \in H : DbFind(h)
    \/ \E h \in H : DbUpdate(h)
    \/ \E h \in H : HandleMessage(h)
    \/ \E h \in H : Dispatch(h)
    \/ \E h \in H : HandleBlacklistUser(h)
    \/ \E h \in H : AfterDb(h)

CommandSpec == CommandInit /\ [][CommandNext]_vars

(* `!blacklistuser` of the admin u3 in g1, aimed at u1 and at the admin    *)
(* itself, with store and gateway failures.                                *)
BlacklistEvents ==
    {GroupText("g1", "u3", CmdBlacklistUser, <<"u1">>),
     GroupText("g1", "u3", CmdBlacklistUser, <<"u3">>)}

BlacklistInit == InitWith(ConfiguredStore, MaxFaults + 1)

BlacklistNext ==
    \/ \E e \in BlacklistEvents : Delivered < MaxGroupEvents /\ HandleEvent(e)
    \/ \E h \in H : DbFind(h)
    \/ \E h \in H : DbUpdate(h)
    \/ \E h \in H : DbFault(h)
    \/ \E h \in H : HandleEventCatch(h)
    \/ \E h \in H : HandleMessage(h)
    \/ \E h \in H : Dispatch(h)
    \/ \E h \in H : HandleBlacklistUser(h)

BlacklistSpec == BlacklistInit /\ [][BlacklistNext]_vars

(* The word blacklist of g1 holds "spam"; the admin u3 adds "Ad" with two   *)
(* blanks before it, and u1 and u3 send texts.                             *)
WordStore == [ConfiguredStore EXCEPT !["g1"].words = <<ToLowerCase(Spam)>>]

WordEvents ==
    {GroupText("g1", "u3", CmdAddBlacklist \o <<" ", " ", "A", "d">>, <<>>),
     GroupText("g1", "u1", <<"i", "s", " ", "S", "P", "A", "M">>, <<>>),
     GroupText("g1", "u1", <<"A", "D">>, <<>>),
     GroupText("g1", "u1", <<"!", "x", " ", "s", "p", "a", "m">>, <<>>),
     GroupText("g1", "u3", <<"a", " ", "s", "p", "a", "m">>, <<>>)}

WordInit == InitWith(WordStore, 0)

WordNext ==
    \/ \E e \in WordEvents : Delivered < MaxGroupEvents /\ HandleEvent(e)
    \/ \E h \in H : DbFind(h)
    \/ \E h \in H : DbUpdate(h)
    \/ \E h \in H : HandleMessage(h)
    \/ \E h \in H : Dispatch(h)
    \/ \E h \in H : AfterDb(h)
    \/ \E h \in H : CheckMessageForBlacklist(h)

WordSpec == WordInit /\ [][WordNext]_vars

(* Settings of g1: the admin u3 sets and clears the password and removes   *)
(* a word and a user that are not blacklisted, while u1 joins.             *)
Ham == <<"h", "a", "m">>

SettingsEvents ==
    {GroupText("g1", "u3", CmdSetPassword \o <<" ", "O", "p", "e", "n">>, <<>>),
     GroupText("g1", "u3", CmdSetPassword \o <<" ", "O", "F", "F">>, <<>>),
     GroupText("g1", "u3", CmdRemoveBlacklist \o <<" ">> \o Ham, <<>>),
     GroupText("g1", "u3", CmdUnblacklistUser, <<"u1">>),
     MemberJoined("g1", <<"u1">>)}

SettingsNext ==
    \/ \E e \in SettingsEvents : Delivered < MaxGroupEvents /\ HandleEvent(e)
    \/ \E h \in H : DbFind(h)
    \/ \E h \in H : DbUpdate(h)
    \/ \E h \in H : HandleMessage(h)
    \/ \E h \in H : Dispatch(h)
    \/ \E h \in H : AfterDb(h)
    \/ \E h \in H : HandleMemberJoined(h)
    \/ \E h \in H : HandleMember(h)
    \/ \E t \in timers : TimerFire(t)

SettingsSpec == WordInit /\ [][SettingsNext]_vars

(* BlacklistSpec where the event loop runs every continuation that is      *)
(* ready and the store answers every query, with a result or an error:     *)
(* weak fairness of the steps of the handlers.  Ready(h) is the guard of   *)
(* the steps of handler h in BlacklistNext.                                *)
Ready(h) ==
    \/ handlers[h].db \in {"find", "update"}
    \/ handlers[h].db = "err" /\ handlers[h].pc \in Uncaught \cup BlacklistUserPcs
    \/ /\ handlers[h].db = "ok"
       /\ handlers[h].pc \in {"handleMessage_82", "handleMessage_94"} \cup BlacklistUserPcs

BlacklistFairSpec ==
    /\ BlacklistSpec
    /\ \/ []<>(\A h \in H : ~Ready(h))
       \/ []<><<\E h \in H : Ready(h) /\ handlers'[h] # handlers[h]>>_vars

(***************************************************************************)
(* Commands of the admin u3 in g1 whose arguments are missing or not       *)
(* valid.                                                                  *)
ValidationTexts ==
    {CmdSetPassword, CmdAddBlacklist, CmdRemoveBlacklist, CmdBlacklistUser,
     CmdUnblacklistUser, CmdSetAdmin, CmdSetPasswordTimeout,
     CmdSetPasswordTimeout \o <<" ", "x">>,
     CmdSetPasswordTimeout \o <<" ", "0">>,
     CmdSetPasswordTimeout \o <<" ", "-", "1">>,
     CmdSetPasswordTimeout \o <<" ", "5", "x">>}

ValidationEvents == {GroupText("g1", "u3", t, <<>>) : t \in ValidationTexts}

ValidationNext ==
    \/ \E e \in ValidationEvents : Delivered < MaxGroupEvents /\ HandleEvent(e)
    \/ \E h \in H : DbFind(h)
    \/ \E h \in H : DbUpdate(h)
    \/ \E h \in H : HandleMessage(h)
    \/ \E h \in H : Dispatch(h)
    \/ \E h \in H : HandleSetAdmin(h)
    \/ \E h \in H : AfterDb(h)

ValidationSpec == Init /\ [][ValidationNext]_vars

(* Unfollows: u1 and u2 join, u1 and u3 block the bot. *)
UnfollowEvents ==
    {MemberJoined("g2", <<"u1", "u2">>), MemberJoined("g1", <<"u1">>),
     Unfollow("u1"), Unfollow("u3")}

UnfollowNext ==
    \/ \E e \in UnfollowEvents : HandleEvent(e)
    \/ \E h \in H : DbFind(h)
    \/ \E h \in H : HandleMemberJoined(h)
    \/ \E h \in H : HandleMember(h)
    \/ \E t \in timers : TimerFire(t)

UnfollowSpec == Init /\ [][UnfollowNext]_vars

(* The admin u3 of g1 names admins and blacklists a user, with store and   *)
(* gateway failures.                                                       *)
AdminEvents ==
    {GroupText("g1", "u3", CmdSetAdmin, <<"u1">>),
     GroupText("g1", "u3", CmdSetAdmin, <<"u2">>),
     GroupText("g1", "u3", CmdBlacklistUser, <<"u1">>)}

AdminNext ==
    \/ \E e \in AdminEvents : Delivered < MaxGroupEvents /\ HandleEvent(e)
    \/ \E h \in H : DbFind(h)
    \/ \E h \in H : DbUpdate(h)
    \/ \E h \in H : DbFault(h)
    \/ \E h \in H : HandleEventCatch(h)
    \/ \E h \in H : HandleMessage(h)
    \/ \E h \in H : Dispatch(h)
    \/ \E h \in H : HandleSetAdmin(h)
    \/ \E h \in H : HandleBlacklistUser(h)

AdminSpec == BlacklistInit /\ [][AdminNext]_vars

(* `!status` in g1, in a group without a row and in the configured group.  *)
StatusEvents ==
    {GroupText("g1", "u1", CmdSetAdmin, <<>>), GroupText("g1", "u1", CmdStatus, <<>>),
     GroupText("g1", "u3", CmdStatus, <<>>),
     GroupText("g1", "u3", CmdSetPassword \o <<" ", "o", "f", "f">>, <<>>)}

StatusNext ==
    \/ \E e \in StatusEvents : Delivered < MaxGroupEvents /\ HandleEvent(e)
    \/ \E h \in H : DbFind(h)
    \/ \E h \in H : DbInsert(h)
    \/ \E h \in H : DbUpdate(h)
    \/ \E h \in H : HandleEventCatch(h)
    \/ \E h \in H : HandleMessage(h)
    \/ \E h \in H : Dispatch(h)
    \/ \E h \in H : HandleSetAdmin(h)
    \/ \E h \in H : AfterDb(h)

StatusSpec == (BootstrapInit \/ CommandInit) /\ [][StatusNext]_vars

(* u1 joins g1 and is registered; then the admin u3 changes or removes the *)
(* password and u1 answers.                                                *)
ChangeEvents ==
    {GroupText("g1", "u3", CmdSetPassword \o <<" ">> \o Open, <<>>),
     GroupText("g1", "u3", CmdSetPassword \o <<" ", "o", "f", "f">>, <<>>),
     DirectText("u1", Letmein), DirectText("u1", Open)}

ChangeNext ==
    \/ Delivered = 0 /\ HandleEvent(MemberJoined("g1", <<"u1">>))
    \/ \E e \in ChangeEvents : nextTimerId > 1 /\ HandleEvent(e)
    \/ \E h \in H : DbFind(h)
    \/ \E h \in H : DbUpdate(h)
    \/ \E h \in H : HandleMessage(h)
    \/ \E h \in H : Dispatch(h)
    \/ \E h \in H : AfterDb(h)
    \/ \E h \in H : HandleMemberJoined(h)
    \/ \E h \in H : HandleMember(h)
    \/ \E h \in H : HandlePasswordAttempt(h)
    \/ \E t \in timers : TimerFire(t)

ChangeSpec == Init /\ [][ChangeNext]_vars

(* Texts in g1 of u2, who is on its user blacklist, and of u1, who is not. *)
SenderEvents ==
    {GroupText("g1", "u2", CmdSetAdmin, <<>>),
     GroupText("g1", "u2", CmdSetPassword \o <<" ">> \o Open, <<>>),
     GroupText("g1", "u2", <<"i", "s", " ", "S", "P", "A", "M">>, <<>>),
     GroupText("g1", "u1", <<"i", "s", " ", "S", "P", "A", "M">>, <<>>)}

SenderNext ==
    \/ \E e \in SenderEvents : HandleEvent(e)
    \/ \E h \in H : DbFind(h)
    \/ \E h \in H : HandleMessage(h)
    \/ \E h \in H : CheckMessageForBlacklist(h)

SenderSpec == WordInit /\ [][SenderNext]_vars

(* Commands of u1 in g1, which has no row yet, before and after the        *)
(* bootstrap.                                                              *)
FreshEvents ==
    {GroupText("g1", "u1", CmdSetAdmin, <<>>),
     GroupText("g1", "u1", CmdSetPassword \o <<" ">> \o Open, <<>>),
     GroupText("g1", "u1", CmdSetPasswordTimeout \o <<" ", "5">>, <<>>),
     GroupText("g1", "u1", CmdAddBlacklist \o <<" ">> \o Spam, <<>>),
     GroupText("g1", "u1", CmdBlacklistUser, <<"u2">>)}

FreshNext ==
    \/ \E e \in FreshEvents : Delivered < MaxGroupEvents /\ HandleEvent(e)
    \/ \E h \in H : DbFind(h)
    \/ \E h \in H : DbInsert(h)
    \/ \E h \in H : DbUpdate(h)
    \/ \E h \in H : HandleEventCatch(h)
    \/ \E h \in H : HandleMessage(h)
    \/ \E h \in H : Dispatch(h)
    \/ \E h \in H : HandleSetAdmin(h)
    \/ \E h \in H : HandleBlacklistUser(h)
    \/ \E h \in H : AfterDb(h)

FreshSpec == BootstrapInit /\ [][FreshNext]_vars

(* u1 joins g1 and is registered, then answers, with store and gateway     *)
(* failures.                                                               *)
RetryNext ==
    \/ Delivered = 0 /\ HandleEvent(MemberJoined("g1", <<"u1">>))
    \/ \E t \in {Letmein, Open} : nextTimerId > 1 /\ HandleEvent(DirectText("u1", t))
    \/ \E h \in H : DbFind(h)
    \/ \E h \in H : DbFault(h)
    \/ \E h \in H : HandleEventCatch(h)
    \/ \E h \in H : HandleMemberJoined(h)
    \/ \E h \in H : HandleMember(h)
    \/ \E h \in H : HandlePasswordAttempt(h)
    \/ \E t \in timers : TimerFire(t)

RetrySpec == BlacklistInit /\ [][RetryNext]_vars

(***************************************************************************)
(* Claims.                                                                 *)
(***************************************************************************)
\* the calls handler h has issued with this text
Said(h, text) == \E i \in 1..Len(sent[h]) : sent[h][i].text = text
\* handler h has issued a kick
Kicked(h) == \E i \in 1..Len(sent[h]) : sent[h][i].op = "kick"
\* handler h runs handlePasswordAttempt for the verification with timer v
Attempts(h, v) == handlers[h].vdata.present /\ handlers[h].vdata.timeoutId = v
Verifications == 1..(nextTimerId - 1)

\* C1: when two direct messages of one user are handled for the same
\* PendingVerification, only one of them produces a reply or a kick; the other
\* is a no-op (the entry is removed before the handler can suspend).
C1_SecondAttemptIsNoOp ==
    \A h1, h2 \in H :
        (h1 # h2 /\ handlers[h1].vdata.present /\ Attempts(h2, handlers[h1].vdata.timeoutId))
            => (sent[h1] = <<>> \/ sent[h2] = <<>>)

\* C2: a PendingVerification is resolved once: when its expiry timer has
\* kicked, no password attempt for that verification replies (confirmation or
\* rejection) or kicks.
C2_TimerOrAttempt ==
    \A v \in Verifications :
        (\E k \in fired : k.id = v) => \A h \in H : Attempts(h, v) => sent[h] = <<>>

\* C7: a finished password attempt for group G has issued exactly the
\* confirmation reply when the message is a text equal to G's password, and
\* exactly the rejection reply followed by a kick from G otherwise; the
\* verification it took up is no longer registered and its timer is disarmed.
C7_AttemptOutcome ==
    \A h \in H :
        (handlers[h].pc = "done" /\ handlers[h].vdata.present) =>
            LET e == handlers[h].ev
                g == handlers[h].vdata.groupId
                pw == store[g].password
            IN  /\ IF e.msgType = "text" /\ ~pw.isNull /\ e.text = pw.s
                   THEN sent[h] = <<Msg(h, "reply", e.userId, "none",
                                        "Password accepted. Welcome!", 0, <<>>, TRUE)>>
                   ELSE sent[h] = <<Msg(h, "reply", e.userId, "none",
                                        "Incorrect password.", 0, <<>>, TRUE),
                                    Msg(h, "kick", e.userId, g,
                                        "Incorrect password provided.", 0, <<>>, TRUE)>>
                /\ pendingVerifications[e.userId] # handlers[h].vdata
                /\ \A t \in timers : t.id # handlers[h].vdata.timeoutId

C7_Witness ==
    /\ \E h \in H : handlers[h].pc = "done" /\ handlers[h].vdata.present
                    /\ handlers[h].ev.text = Letmein /\ ~Kicked(h)
                    /\ Said(h, "Password accepted. Welcome!")
    /\ \E h \in H : handlers[h].pc = "done" /\ handlers[h].vdata.present
                    /\ handlers[h].ev.text = LetmeinCapital /\ Kicked(h)

\* C8: a direct message of a user who has no PendingVerification (the timer
\* has removed it) is a no-op: the handler returns at once, sends nothing and
\* changes nothing.
C8_LateAttemptIsNoOp ==
    /\ [](\A h \in H :
            (handlers[h].ev.type = "message" /\ handlers[h].ev.srcType # "group"
             /\ ~handlers[h].vdata.present)
                => (handlers[h].pc = "done" /\ sent[h] = <<>>))
    /\ [][\A h \in H :
            (handlers[h].pc = "idle" /\ handlers'[h].pc # "idle"
             /\ handlers'[h].ev.type = "message" /\ handlers'[h].ev.srcType # "group"
             /\ ~pendingVerifications[handlers'[h].ev.userId].present)
                => (handlers'[h].pc = "done"
                    /\ UNCHANGED <<store, pendingVerifications, timers, nextTimerId,
                                   sent, fired>>)]_vars

C8_Witness ==
    \E h \in H :
        /\ handlers[h].ev.type = "message" /\ handlers[h].ev.srcType # "group"
        /\ handlers[h].late /\ ~handlers[h].vdata.present
        /\ handlers[h].pc = "done" /\ sent[h] = <<>>
        /\ \E k \in fired : k.to = handlers[h].ev.userId

\* handler h handles a text message of a group
GroupMessage(h) ==
    /\ handlers[h].ev.type = "message" /\ handlers[h].ev.srcType = "group"
    /\ handlers[h].ev.msgType = "text"
\* handler h handles the command c
Commands(h, c) == GroupMessage(h) /\ Command(handlers[h].ev) = c
\* the step of handler h ends it with nothing sent and nothing stored
Ignored(h) == handlers'[h].pc = "done" /\ UNCHANGED <<store, sent>>
\* the step of handler h issues exactly one more call, m
Issues(h, m) == sent'[h] = Append(sent[h], m)

\* C3: in a group without admins, !setadmin makes its sender (never the
\* mentioned user) the only admin and tells the sender so; a !setadmin that
\* finds admins never runs the bootstrap, and when its sender is not among
\* the admins it finds, it gets no reply and changes nothing.
C3_Bootstrap ==
    [][\A h \in H :
        LET e == handlers[h].ev
            g == e.groupId
            steps == handlers'[h] # handlers[h] /\ Commands(h, CmdSetAdmin)
        IN  /\ (steps /\ handlers[h].pc = "handleSetAdmin_175" /\ handlers[h].db = "ok"
                /\ store[g].admins = {})
                    => (handlers'[h].pc = "handleSetAdmin_178" /\ UNCHANGED <<store, sent>>)
            /\ (steps /\ handlers[h].pc = "handleSetAdmin_178" /\ handlers[h].db = "update"
                /\ store[g].admins = {})
                    => (store'[g].admins = {e.userId} /\ handlers'[h].db = "ok")
            /\ (steps /\ handlers[h].pc = "handleSetAdmin_178" /\ handlers[h].db = "ok")
                    => (\E ok \in BOOLEAN :
                            Issues(h, Msg(h, "reply", e.userId, g,
                                          "You are now the first admin.", 0, <<>>, ok)))
            /\ (steps /\ handlers[h].pc = "handleSetAdmin_175" /\ handlers[h].db = "ok"
                /\ handlers[h].row.admins # {})
                    => (handlers'[h].pc = "handleSetAdmin_183" /\ UNCHANGED <<store, sent>>)
            /\ (steps /\ handlers[h].pc = "handleSetAdmin_183" /\ handlers[h].db = "ok"
                /\ e.userId \notin handlers[h].row.admins)
                    => Ignored(h)]_vars

C3_Witness ==
    /\ store["g1"].admins = {"u2"}
    /\ \E h \in H : /\ Commands(h, CmdSetAdmin) /\ handlers[h].pc = "done"
                    /\ handlers[h].ev.userId = "u2" /\ handlers[h].ev.mention = <<"u1">>
                    /\ Said(h, "You are now the first admin.")
    /\ \E h \in H : /\ Commands(h, CmdSetAdmin) /\ handlers[h].pc = "done"
                    /\ handlers[h].ev.userId = "u1" /\ sent[h] = <<>>

\* C4: per group at most one !setadmin is answered "You are now the first
\* admin.", also when several arrive together.
C4_BootstrapOnce ==
    \A g \in Groups :
        Cardinality({h \in H : /\ Commands(h, CmdSetAdmin) /\ handlers[h].ev.groupId = g
                               /\ Said(h, "You are now the first admin.")}) <= 1

\* handler h handles a command other than !setadmin of a sender who is not
\* an admin of the group
NonAdminCommand(h) ==
    /\ GroupMessage(h)
    /\ handlers[h].ev.userId \notin store[handlers[h].ev.groupId].admins
    /\ StartsWith(Command(handlers[h].ev), <<"!">>)
    /\ Command(handlers[h].ev) # CmdSetAdmin
\* a step that changes a row of the store is the UPDATE of a command whose
\* sender is an admin of that group
ChangedByAdmin ==
    store' # store =>
        \E h \in H :
            /\ GroupMessage(h) /\ handlers[h].db = "update" /\ handlers'[h].db = "ok"
            /\ handlers[h].ev.userId \in store[handlers[h].ev.groupId].admins
            /\ \A g \in Groups : g # handlers[h].ev.groupId => store'[g] = store[g]

\* C5 as stated: a command other than !setadmin of a non-admin has no effect
\* at all: no reply, no push, no kick, no change of the settings; and every
\* change of the settings is made by the command of an admin.
C5_NonAdminIgnored ==
    /\ [](\A h \in H : (sent[h] # <<>>) => ~NonAdminCommand(h))
    /\ [][ChangedByAdmin]_vars

\* C5: a command other than !setadmin of a non-admin gets no reply and no
\* push and changes no settings; the only call it can cause is the kick of
\* its sender, and only when the sender is on the group's user blacklist.
\* Every change of the settings is made by the command of an admin.
C5_NonAdminNotExecuted ==
    /\ [](\A h \in H :
            (sent[h] # <<>> /\ NonAdminCommand(h)) =>
                LET e == handlers[h].ev
                IN  /\ e.userId \in store[e.groupId].users
                    /\ \E ok \in BOOLEAN :
                            sent[h] = <<Msg(h, "kick", e.userId, e.groupId,
                                            "User is on the blacklist.", 0, <<>>, ok)>>)
    /\ [][ChangedByAdmin]_vars

C5_Witness ==
    /\ store["g1"].password = Password(Letmein)
    /\ \E h \in H : /\ NonAdminCommand(h) /\ handlers[h].pc = "done"
                    /\ handlers[h].ev.userId = "u1"
                    /\ Command(handlers[h].ev) = CmdSetPassword /\ sent[h] = <<>>
    /\ \E h \in H : /\ NonAdminCommand(h) /\ handlers[h].pc = "done"
                    /\ handlers[h].ev.userId = "u2" /\ Kicked(h)

\* the prompt of a registration of u for group g has been pushed
Registered(u, g) ==
    \E h \in H :
        /\ handlers[h].ev.type = "memberJoined" /\ handlers[h].ev.groupId = g
        /\ \E i \in 1..Len(sent[h]) : sent[h][i].op = "push" /\ sent[h][i].to = u
\* no direct message and no unfollow of u has arrived
Silent(u) ==
    \A h \in H :
        (handlers[h].ev.userId = u /\ handlers[h].ev.srcType # "group")
            => handlers[h].ev.type \notin {"message", "unfollow"}
KickedFrom(u, g) ==
    \/ \E k \in fired : k.to = u /\ k.group = g
    \/ \E h \in H : \E i \in 1..Len(sent[h]) :
            sent[h][i].op = "kick" /\ sent[h][i].to = u /\ sent[h][i].group = g
Quiet == timers = {} /\ \A h \in H : handlers[h].pc \in {"idle", "done"}

\* C6: once every timer has expired and every handler has returned, a user
\* who was made pending for group G and has sent no direct message and no
\* unfollow has been kicked from G.
C6_PendingUserIsKicked ==
    Quiet => \A u \in Users, g \in Groups :
                (Registered(u, g) /\ Silent(u)) => KickedFrom(u, g)

\* C9: the step that handles one member m of a member-joined event of group
\* G kicks m and registers nothing when m is on G's user blacklist; else,
\* when G has a password, registers the PendingVerification of m for G with a
\* newly armed timer and pushes the prompt to m; else does nothing.
C9_MemberDecision ==
    [][\A h \in H :
        (handlers[h].pc = "handleMemberJoined_144" /\ handlers[h].db = "ok"
         /\ handlers'[h] # handlers[h]) =>
            LET e == handlers[h].ev
                g == e.groupId
                m == e.members[handlers[h].idx]
                pw == store[g].password
            IN  IF m \in store[g].users THEN
                    /\ \E ok \in BOOLEAN :
                        Issues(h, Msg(h, "kick", m, g, "A blacklisted user tried to join.",
                                      0, <<>>, ok))
                    /\ UNCHANGED <<pendingVerifications, timers>>
                ELSE IF ~pw.isNull /\ pw.s # <<>> THEN
                    /\ \E t \in timers' :
                        /\ timers' = timers \cup {t} /\ t \notin timers
                        /\ \A t2 \in timers : t2.id # t.id
                        /\ t.userId = m /\ t.groupId = g
                        /\ pendingVerifications' =
                                [pendingVerifications EXCEPT ![m] = Entry(g, t.id)]
                    /\ Len(sent'[h]) = Len(sent[h]) + 1
                    /\ SubSeq(sent'[h], 1, Len(sent[h])) = sent[h]
                    /\ LET p == sent'[h][Len(sent'[h])]
                       IN  /\ p.op = "push" /\ p.to = m
                           /\ p.text = "Welcome! This group requires a password."
                ELSE UNCHANGED <<pendingVerifications, timers, sent>>]_vars

C9_Witness ==
    /\ \E h \in H : /\ handlers[h].ev.type = "memberJoined" /\ handlers[h].ev.groupId = "g1"
                    /\ handlers[h].pc = "done" /\ Len(sent[h]) = 2
                    /\ \E i \in 1..2 : sent[h][i].op = "kick" /\ sent[h][i].to = "u2"
                    /\ \E i \in 1..2 : sent[h][i].op = "push" /\ sent[h][i].to = "u1"
                    /\ pendingVerifications["u1"].present
                    /\ pendingVerifications["u1"].groupId = "g1"
                    /\ ~pendingVerifications["u2"].present
    /\ \E h \in H : /\ handlers[h].ev.type = "memberJoined" /\ handlers[h].ev.groupId = "g2"
                    /\ handlers[h].pc = "done" /\ handlers[h].idx = 2 /\ sent[h] = <<>>

\* what handling member i of the event of handler h has to send
Processed(h, i) ==
    LET g == handlers[h].ev.groupId
        m == handlers[h].ev.members[i]
    IN  IF m \in store[g].users
        THEN \E k \in 1..Len(sent[h]) : sent[h][k].op = "kick" /\ sent[h][k].to = m
        ELSE Truthy(store[g].password)
                => \E k \in 1..Len(sent[h]) : sent[h][k].op = "push" /\ sent[h][k].to = m

\* C10: when the handler of a member-joined event has returned, every member
\* after the one it handled last has been processed, whatever failed before.
C10_LaterMembersProcessed ==
    \A h \in H :
        (handlers[h].ev.type = "memberJoined" /\ handlers[h].pc = "done"
         /\ handlers[h].idx >= 1)
            => \A i \in (handlers[h].idx + 1)..Len(handlers[h].ev.members) : Processed(h, i)

\* handler h has issued the call op and the call failed
Failed(h, op) == \E i \in 1..Len(sent[h]) : sent[h][i].op = op /\ ~sent[h][i].ok
\* handler h runs `!blacklistuser @x` of an admin of the group
BlacklistsUser(h, x) ==
    /\ handlers[h].ev.mention = <<x>>
    /\ handlers[h].ev.groupId \in Groups
    /\ handlers[h].ev.userId \in store[handlers[h].ev.groupId].admins
    /\ Commands(h, CmdBlacklistUser)

\* C11: when the member lookup or the kick of `!blacklistuser @X` has failed,
\* X is on the user blacklist and the admin is never told "has been
\* blacklisted and removed."
C11_DegradedReply ==
    \A h \in H : \A x \in Users :
        ((Failed(h, "profile") \/ Failed(h, "kick")) /\ BlacklistsUser(h, x))
            => /\ x \in store[handlers[h].ev.groupId].users
               /\ ~Said(h, "has been blacklisted and removed.")

\* C12: `!blacklistuser @X` for an admin X never stores anything and never
\* kicks or reports success; when the admin test has an answer the reply
\* is "You cannot blacklist an admin." and the handler returns.
C12_AdminNotBlacklisted ==
    /\ [](\A h \in H : \A x \in Users :
            (/\ handlers[h].ev.groupId \in Groups
             /\ x \in store[handlers[h].ev.groupId].admins
             /\ \/ Kicked(h)
                \/ Said(h, "has been blacklisted and removed.")
                \/ handlers[h].pc = "handleBlacklistUser_273"
                \/ x \in store[handlers[h].ev.groupId].users)
                => ~BlacklistsUser(h, x))
    /\ [][\A h \in H : \A x \in Users :
            (/\ handlers[h].pc = "handleBlacklistUser_271" /\ handlers[h].db = "ok"
             /\ handlers'[h] # handlers[h]
             /\ x \in store[handlers[h].ev.groupId].admins
             /\ BlacklistsUser(h, x))
                => /\ handlers'[h].pc = "done"
                   /\ store' = store
                   /\ \E ok \in BOOLEAN :
                        Issues(h, Msg(h, "push", handlers[h].ev.userId, "none",
                                      "You cannot blacklist an admin.", 0, <<>>, ok))]_vars

C12_Witness ==
    \E h \in H :
        /\ BlacklistsUser(h, "u3") /\ handlers[h].pc = "done"
        /\ Said(h, "You cannot blacklist an admin.") /\ Len(sent[h]) = 1
        /\ store["g1"].users = {"u2"}

\* the step of handler h issues a kick of its sender
KicksSender(h) ==
    /\ Len(sent'[h]) = Len(sent[h]) + 1
    /\ sent'[h][Len(sent'[h])].op = "kick"
    /\ sent'[h][Len(sent'[h])].to = handlers[h].ev.userId
\* the lowercased text of handler h contains the word w
Contains(h, w) == Includes(ToLowerCase(handlers[h].ev.text), w)

\* C13: when checkMessageForBlacklist has read the settings for the text of
\* a sender who is neither admin nor blacklisted, and the lowercased text
\* contains one of the stored words (a word that is not empty), the sender
\* is kicked; and the UPDATE of !addblacklist stores each word lowercased.
C13_WordMatch ==
    [][\A h \in H :
        /\ (/\ handlers[h].pc = "checkMessageForBlacklist_368" /\ handlers[h].db = "ok"
            /\ handlers'[h] # handlers[h]
            /\ handlers[h].ev.userId \notin store[handlers[h].ev.groupId].admins
            /\ handlers[h].ev.userId \notin store[handlers[h].ev.groupId].users
            /\ \E i \in 1..Len(handlers[h].row.words) :
                    handlers[h].row.words[i] # <<>> /\ Contains(h, handlers[h].row.words[i]))
                => KicksSender(h)
        /\ (/\ handlers[h].pc = "handleAddBlacklistWords_203" /\ handlers[h].db = "update"
            /\ handlers'[h].db = "ok")
                => \A k \in 1..Len(Args(handlers[h].ev)) :
                     \E i \in 1..Len(store'[handlers[h].ev.groupId].words) :
                        store'[handlers[h].ev.groupId].words[i]
                            = ToLowerCase(Args(handlers[h].ev)[k])]_vars

\* C14: when the handler of a group text returns, and the sender is not an
\* admin, and the lowercased text contains a word that has been on the
\* blacklist of the group all along, the handler has kicked the sender.
C14_WordAlwaysKicks ==
    [][\A h \in H :
        (/\ handlers[h].pc # "done" /\ handlers'[h].pc = "done"
         /\ handlers'[h].ev.type = "message" /\ handlers'[h].ev.srcType = "group"
         /\ handlers'[h].ev.msgType = "text"
         /\ handlers'[h].ev.userId \notin store[handlers'[h].ev.groupId].admins
         /\ \E i \in 1..Len(WordStore[handlers'[h].ev.groupId].words) :
                Includes(ToLowerCase(handlers'[h].ev.text),
                         WordStore[handlers'[h].ev.groupId].words[i]))
            => \E i \in 1..Len(sent'[h]) :
                    sent'[h][i].op = "kick" /\ sent'[h][i].to = handlers'[h].ev.userId]_vars

\* C15: no handler of a group text of an admin issues the kick for a
\* blacklisted word.
C15_AdminExempt ==
    \A h \in H :
        Said(h, "Used blacklisted word:")
            => ~(GroupMessage(h)
                 /\ handlers[h].ev.userId \in store[handlers[h].ev.groupId].admins)

C15_Witness ==
    \E h \in H :
        /\ GroupMessage(h) /\ handlers[h].ev.userId = "u3" /\ handlers[h].pc = "done"
        /\ Contains(h, ToLowerCase(Spam)) /\ sent[h] = <<>>
        /\ "u3" \in store["g1"].admins /\ store["g1"].words[1] = ToLowerCase(Spam)

\* handler h is at the UPDATE of the db function it called at pc, and the
\* step performs it
Updates(h, pc) ==
    handlers[h].pc = pc /\ handlers[h].db = "update" /\ handlers'[h].db = "ok"
\* handler h resumes after the db function it called at pc has returned
Resumes(h, pc) ==
    handlers[h].pc = pc /\ handlers[h].db = "ok" /\ handlers'[h] # handlers[h]
\* the step pushes the text to the sender of handler h and ends the handler
Answers(h, text, n, s) ==
    /\ handlers'[h].pc = "done"
    /\ \E ok \in BOOLEAN :
            Issues(h, Msg(h, "push", handlers[h].ev.userId, "none", text, n, s, ok))

\* C16: the UPDATE of `!setpassword off`, in any letter case, leaves the
\* password null (any other argument is stored verbatim) and the admin is
\* told so; a member-joined handler that reads the settings while the
\* password is null registers nothing and sends no prompt to a member who
\* is not blacklisted.
C16_PasswordOff ==
    [][\A h \in H :
        LET e == handlers[h].ev
            g == e.groupId
        IN  /\ Updates(h, "handleSetPassword_230") =>
                    /\ store'[g] = [store[g] EXCEPT !.password =
                            IF ToLowerCase(Args(e)[1]) = <<"o", "f", "f">>
                            THEN NullPassword ELSE Password(Args(e)[1])]
            /\ (Resumes(h, "handleSetPassword_230")
                /\ ToLowerCase(Args(e)[1]) = <<"o", "f", "f">>) =>
                    Answers(h, "Password protection has been disabled.", 0, <<>>)
            /\ (/\ handlers[h].pc = "handleMemberJoined_141"
                /\ handlers[h].db = "find" /\ handlers'[h].db = "ok"
                /\ store[g].password.isNull) =>
                    handlers'[h].row.password.isNull
            /\ Resumes(h, "handleMemberJoined_141") =>
                    (handlers'[h].pc = "done" \/ handlers'[h].settings = handlers[h].row)
            /\ (/\ Resumes(h, "handleMemberJoined_144")
                /\ handlers[h].settings.password.isNull
                /\ e.members[handlers[h].idx] \notin store[g].users) =>
                    UNCHANGED <<pendingVerifications, timers, sent>>]_vars

C16_Witness ==
    /\ store["g1"].password = NullPassword
    /\ \E h \in H : /\ Commands(h, CmdSetPassword) /\ handlers[h].pc = "done"
                    /\ Said(h, "Password protection has been disabled.")
    /\ \E h \in H : /\ handlers[h].ev.type = "memberJoined" /\ handlers[h].pc = "done"
                    /\ handlers[h].idx = 1 /\ sent[h] = <<>>
    /\ ~pendingVerifications["u1"].present /\ timers = {} /\ fired = {}

\* C17: the UPDATE of `!removeblacklist w` for words that are not stored and
\* of `!unblacklistuser @X` for a user who is not blacklisted leaves the
\* store unchanged, and the handler then pushes its normal success message.
C17_RemovalIdempotent ==
    [][\A h \in H :
        LET e == handlers[h].ev
            g == e.groupId
        IN  /\ (/\ Updates(h, "handleRemoveBlacklistWords_214")
                /\ \A k \in 1..Len(Args(e)) : \A i \in 1..Len(store[g].words) :
                        store[g].words[i] # ToLowerCase(Args(e)[k])) =>
                    store' = store
            /\ Resumes(h, "handleRemoveBlacklistWords_214") =>
                    Answers(h, "Removed word(s) from blacklist.", Len(Args(e)), <<>>)
            /\ (Updates(h, "handleUnblacklistUser_288") /\ e.mention[1] \notin store[g].users) =>
                    store' = store
            /\ Resumes(h, "handleUnblacklistUser_288") =>
                    Answers(h, "has been unblacklisted.", 0, <<>>)]_vars

C17_Witness ==
    /\ store = WordStore
    /\ \E h \in H : /\ Commands(h, CmdRemoveBlacklist) /\ handlers[h].pc = "done"
                    /\ Args(handlers[h].ev) = <<Ham>>
                    /\ Said(h, "Removed word(s) from blacklist.")
    /\ \E h \in H : /\ Commands(h, CmdUnblacklistUser) /\ handlers[h].pc = "done"
                    /\ handlers[h].ev.mention = <<"u1">>
                    /\ Said(h, "has been unblacklisted.")

\* the decimal integer at the front of the token a, if there is one
Unsigned(a) == IF a # <<>> /\ Head(a) \in {"-", "+"} THEN Tail(a) ELSE a
LeadingInteger(a) ==
    [has |-> Unsigned(a) # <<>> /\ IsDigit(Head(Unsigned(a))),
     v |-> IF a # <<>> /\ Head(a) = "-"
           THEN 0 - DigitsValue(DigitPrefix(Unsigned(a)), 0)
           ELSE DigitsValue(DigitPrefix(Unsigned(a)), 0)]
\* the token a is a decimal integer and nothing else
Numeric(a) == LeadingInteger(a).has /\ DigitPrefix(Unsigned(a)) = Unsigned(a)
UsageTexts ==
    {"Usage: !setpassword [new_password|off]", "Usage: !addblacklist [word]...",
     "Usage: !removeblacklist [word]...", "Usage: !blacklistuser @username",
     "Usage: !unblacklistuser @username", "Usage: !setadmin @username",
     "Usage: !setpasswordtimeout [minutes]", "Please provide a valid number of minutes."}
\* the event e is a command whose required argument or mention is missing
MissingArgument(e) ==
    \/ /\ Command(e) \in {CmdSetPassword, CmdAddBlacklist, CmdRemoveBlacklist,
                          CmdSetPasswordTimeout}
       /\ Args(e) = <<>>
    \/ Command(e) \in {CmdBlacklistUser, CmdUnblacklistUser} /\ e.mention = <<>>
\* the step ends handler h with one usage or validation message and no change
Refuses(h) ==
    /\ handlers'[h].pc = "done"
    /\ store' = store
    /\ Len(sent'[h]) = Len(sent[h]) + 1
    /\ SubSeq(sent'[h], 1, Len(sent[h])) = sent[h]
    /\ sent'[h][Len(sent'[h])].op = "push"
    /\ sent'[h][Len(sent'[h])].to = handlers[h].ev.userId
    /\ sent'[h][Len(sent'[h])].text \in UsageTexts
\* the stored timeout of every group is a positive integer
TimeoutsPositive == \A g \in Groups : store[g].timeout \in Nat /\ store[g].timeout > 0
\* the refusals of the commands other than `!setpasswordtimeout <argument>`
RefusesMissing(h) ==
    /\ (Resumes(h, "handleMessage_94") /\ handlers[h].ev.userId \in handlers[h].row.admins
        /\ MissingArgument(handlers[h].ev))
            => Refuses(h)
    /\ (Resumes(h, "handleSetAdmin_183") /\ handlers[h].ev.userId \in handlers[h].row.admins
        /\ handlers[h].ev.mention = <<>>)
            => Refuses(h)
\* handler h resumes in the switch with `!setpasswordtimeout <argument>`
TimeoutArgument(h) ==
    /\ Resumes(h, "handleMessage_94") /\ handlers[h].ev.userId \in handlers[h].row.admins
    /\ Command(handlers[h].ev) = CmdSetPasswordTimeout
    /\ Args(handlers[h].ev) # <<>>

\* C18 as stated: a command of an admin with a missing argument or mention,
\* and `!setpasswordtimeout` with an argument that is not a number or is a
\* number <= 0, is answered with a usage or validation message and changes
\* nothing; the stored timeout of every group is a positive integer.
C18_InvalidArgumentsRefused ==
    /\ []TimeoutsPositive
    /\ [][\A h \in H :
            /\ RefusesMissing(h)
            /\ (/\ TimeoutArgument(h)
                /\ \/ ~Numeric(Args(handlers[h].ev)[1])
                   \/ LeadingInteger(Args(handlers[h].ev)[1]).v <= 0)
                    => Refuses(h)]_vars

\* C18: as above, where `!setpasswordtimeout` is refused when its argument
\* does not begin with a decimal integer or that integer is <= 0; an
\* argument that begins with a positive integer is accepted for that
\* integer, whatever follows it ("5x" sets 5 minutes).
C18_InvalidArgumentsParsed ==
    /\ []TimeoutsPositive
    /\ [][\A h \in H :
            /\ RefusesMissing(h)
            /\ (/\ TimeoutArgument(h)
                /\ \/ ~LeadingInteger(Args(handlers[h].ev)[1]).has
                   \/ LeadingInteger(Args(handlers[h].ev)[1]).v <= 0)
                    => Refuses(h)
            /\ Updates(h, "handleSetPasswordTimeout_243")
                    => store'[handlers[h].ev.groupId].timeout
                            = LeadingInteger(Args(handlers[h].ev)[1]).v]_vars

C18_Witness ==
    /\ store["g1"].timeout = 5
    /\ \E h \in H : /\ Commands(h, CmdSetPasswordTimeout) /\ handlers[h].pc = "done"
                    /\ Args(handlers[h].ev) = <<<<"5", "x">>>>
    /\ \E h \in H : /\ Commands(h, CmdSetPasswordTimeout) /\ handlers[h].pc = "done"
                    /\ Args(handlers[h].ev) = <<<<"-", "1">>>>
                    /\ Said(h, "Please provide a valid number of minutes.")

\* the places where a handler can be suspended inside a try block
Guarded == Uncaught \cup SetAdminPcs \cup BlacklistUserPcs \cup AfterDbPcs
\* handler h continues after a failure of the store, or issues a gateway
\* call that fails
FailsIn(h) ==
    \/ handlers[h].db = "err" /\ handlers'[h] # handlers[h]
    \/ /\ Len(sent'[h]) > Len(sent[h])
       /\ \E k \in (Len(sent[h]) + 1)..Len(sent'[h]) : ~sent'[h][k].ok

\* C19: a handler whose store call failed is suspended inside a try block; a
\* step in which a handler meets a failure of the store or of the gateway
\* changes nothing of the other handlers, of the store and of the pending
\* verifications; and every event that was delivered is handled to its end,
\* whatever failed in it or in the others.
C19_ErrorsCaught ==
    /\ [](\A h \in H : handlers[h].db = "err" => handlers[h].pc \in Guarded)
    /\ [][\A h \in H : FailsIn(h) =>
            /\ \A k \in H \ {h} : handlers'[k] = handlers[k] /\ sent'[k] = sent[k]
            /\ UNCHANGED <<store, pendingVerifications, timers, fired>>]_vars
    /\ \A h \in H : (handlers[h].pc # "idle") ~> (handlers[h].pc = "done")

C19_Witness ==
    \E h \in H, k \in H :
        /\ h # k
        /\ Failed(h, "push")
        /\ Said(h, "User ID added to blacklist, but could not be removed from group (may have already left).")
        /\ "u1" \notin store["g1"].users
        /\ handlers[h].pc = "done" /\ handlers[k].pc = "done"
        /\ Said(k, "You cannot blacklist an admin.")

\* the step delivers an unfollow event to handler h
Unfollows(h) == handlers[h].pc = "idle" /\ handlers'[h].ev.type = "unfollow"

\* C20: the delivery of an unfollow event of user u removes the pending
\* verification of u, if there is one, and returns at once; it issues no
\* call to the gateway and changes no settings, no timer, no entry of
\* another user and no other handler.
C20_UnfollowOnlyForgets ==
    /\ [](\A h \in H : handlers[h].ev.type = "unfollow"
                => handlers[h].pc = "done" /\ sent[h] = <<>>)
    /\ [][\A h \in H : Unfollows(h) =>
            /\ handlers'[h].pc = "done"
            /\ ~pendingVerifications'[handlers'[h].ev.userId].present
            /\ \A u \in Users \ {handlers'[h].ev.userId} :
                    pendingVerifications'[u] = pendingVerifications[u]
            /\ \A k \in H \ {h} : handlers'[k] = handlers[k]
            /\ UNCHANGED <<store, timers, nextTimerId, sent, fired>>]_vars

C20_Witness ==
    /\ \E h \in H : handlers[h].ev = Unfollow("u1")
    /\ \E t \in timers : t.userId = "u1"
    /\ ~pendingVerifications["u1"].present
    /\ pendingVerifications["u2"].present
    /\ \E h \in H : handlers[h].ev = Unfollow("u3")

\* the replies and pushes handler h has issued
Answered(h) == {sent[h][i].op : i \in {j \in 1..Len(sent[h]) : sent[h][j].op \in {"reply", "push"}}}

\* C21: the answers to one command all go by one channel, whoever sent it and
\* whatever the outcome: two handlers of the same command word never answer
\* one by a reply and the other by a push, and no handler answers by both;
\* a group text that is no command is answered neither by reply nor by push.
C21_OneChannelPerCommand ==
    /\ \A h, k \in H :
            (sent[h] # <<>> /\ sent[k] # <<>> /\ GroupMessage(h) /\ GroupMessage(k)
             /\ Command(handlers[h].ev) = Command(handlers[k].ev))
                => Cardinality(Answered(h) \cup Answered(k)) <= 1
    /\ \A h \in H :
            (sent[h] # <<>> /\ GroupMessage(h)
             /\ ~StartsWith(MessageText(handlers[h].ev), <<"!">>))
                => Answered(h) = {}

\* the overview of the row: the line on the password, the timeout when a
\* password is in force, and the sizes of admins, words and users
Overview(h, row, ok) ==
    LET on == ~row.password.isNull /\ row.password.s # <<>>
    IN  [by |-> "handler", id |-> h, op |-> "push", to |-> handlers[h].ev.userId,
         group |-> "none",
         text |-> IF on THEN "Password Protection: Enabled"
                  ELSE "Password Protection: Disabled",
         n |-> IF ~on THEN 0
               ELSE IF row.timeout # 0 THEN row.timeout
               ELSE DEFAULT_PASSWORD_TIMEOUT_MINUTES,
         s |-> <<>>,
         counts |-> <<Cardinality(row.admins), Len(row.words), Cardinality(row.users)>>,
         ok |-> ok]

\* C22: `!status` of an admin reads the row of the group as it is stored at
\* that moment and pushes its overview to the sender: Disabled when no
\* password is in force, else Enabled with the timeout, and the sizes of
\* admins, blacklist_words and blacklist_users; no step of the command
\* changes the store, the pending verifications or the timers.
C22_StatusReport ==
    [][\A h \in H :
        (handlers'[h] # handlers[h] /\ handlers[h].pc # "idle"
         /\ handlers[h].ev.groupId \in Groups
         /\ handlers[h].ev.userId \in store[handlers[h].ev.groupId].admins
         /\ Commands(h, CmdStatus))
            => /\ UNCHANGED <<store, pendingVerifications, timers>>
               /\ (handlers[h].pc = "handleStatusCommand_299" /\ handlers'[h].db = "ok")
                    => handlers'[h].row = store[handlers[h].ev.groupId]
               /\ Resumes(h, "handleStatusCommand_299")
                    => /\ handlers'[h].pc = "done"
                       /\ \E ok \in BOOLEAN : Issues(h, Overview(h, handlers[h].row, ok))]_vars

\* the report on the group right after the bootstrap
C22_Witness ==
    /\ store["g1"] = [DefaultRow EXCEPT !.admins = {"u1"}]
    /\ \E h \in H :
            /\ handlers[h].ev = GroupText("g1", "u1", CmdStatus, <<>>)
            /\ handlers[h].pc = "done"
            /\ sent[h] = <<[Msg(h, "push", "u1", "none", "Password Protection: Disabled",
                                0, <<>>, TRUE) EXCEPT !.counts = <<1, 0, 0>>]>>

\* u has received the confirmation reply of a password attempt for group g
Confirmed(u, g) ==
    \E h \in H : /\ handlers[h].ev.userId = u
                 /\ handlers[h].vdata.present /\ handlers[h].vdata.groupId = g
                 /\ Said(h, "Password accepted. Welcome!")
\* a timer of u for group g is armed, or an attempt of u for g is being handled
Watched(u, g) ==
    \/ \E t \in timers : t.userId = u /\ t.groupId = g
    \/ \E h \in H : /\ handlers[h].ev.userId = u /\ handlers[h].pc \notin {"idle", "done"}
                    /\ handlers[h].vdata.present /\ handlers[h].vdata.groupId = g

\* C23: a member who was prompted for the password of group G and has
\* neither been confirmed for G nor had a kick from G issued is still
\* watched by a timer for G or by an attempt in progress; and every member
\* prompted for G is eventually confirmed for G or has a kick from G issued.
C23_VerifiedOrRemoved ==
    /\ [](\A u \in Users, g \in Groups :
            (Registered(u, g) /\ ~Confirmed(u, g) /\ ~KickedFrom(u, g)) => Watched(u, g))
    /\ \A u \in Users, g \in Groups :
            Registered(u, g) ~> (Confirmed(u, g) \/ KickedFrom(u, g))

\* the step is the callback of timer t
Fires(t) == t \in timers /\ timers' = timers \ {t}

\* C24: the callback of a timer acts only on the verification it was armed
\* for: when it kicks user u from group G or removes u's entry, the entry of
\* u before the step is the one for G that holds this timer's id.
C24_TimerOwnsEntry ==
    [][\A t \in timers :
        (Fires(t) /\ (fired' # fired \/ pendingVerifications' # pendingVerifications))
            => pendingVerifications[t.userId] = Entry(t.groupId, t.id)]_vars

\* handler h has completed `!setadmin @x` with the success message
AddedAdmin(h, x) ==
    /\ handlers[h].pc = "done"
    /\ handlers[h].ev.mention = <<x>>
    /\ Said(h, "New admin added successfully.")

\* C25: additions to one field of one row are not lost: when two handlers
\* have each completed the addition of an admin to the same group, both
\* admins are in the stored set (the result of the two additions in either
\* order), and so is the admin of every single completed addition.
C25_NoLostAddition ==
    \A h, k \in H : \A x, y \in Users :
        (AddedAdmin(h, x) /\ AddedAdmin(k, y)
         /\ handlers[h].ev.groupId = handlers[k].ev.groupId)
            => {x, y} \subseteq store[handlers[h].ev.groupId].admins

\* C26: the admins of a group only grow: no step removes a user from the
\* stored admins of a group.
C26_AdminsOnlyGrow ==
    [][\A g \in Groups : store[g].admins \subseteq store'[g].admins]_vars

\* C27: the INSERT of a get-or-create call for a group never fails, also
\* when another handler has created the row since this one looked for it: it
\* gives the caller a row with the defaults; and a row, once it exists, is
\* never deleted.
C27_GetOrCreate ==
    [][/\ \A h \in H :
            (handlers[h].db = "insert" /\ handlers'[h] # handlers[h])
                => /\ handlers'[h].db # "err"
                   /\ handlers'[h].row = DefaultRow
                   /\ store'[handlers[h].dbg].exists
       /\ \A g \in Groups : store[g].exists => store'[g].exists]_vars

\* handler h runs the password attempt of a verification
Attempting(h) == handlers[h].pc = "handlePasswordAttempt_353" /\ handlers[h].vdata.present

\* C28: a password attempt reads the row of its group when it is handled,
\* and its outcome is decided by the password of that row: the confirmation
\* reply when the text equals it, else (another text, no text, or no password
\* stored any more) the rejection reply and a kick from the group.
C28_CurrentPassword ==
    [][\A h \in H :
        /\ (Attempting(h) /\ handlers[h].db = "find" /\ handlers'[h].db = "ok")
                => handlers'[h].row = store[handlers[h].vdata.groupId]
        /\ (Attempting(h) /\ handlers[h].db = "ok" /\ handlers'[h] # handlers[h])
                => LET e == handlers[h].ev
                       pw == handlers[h].row.password
                   IN  /\ handlers'[h].pc = "done"
                       /\ \E ok1, ok2 \in BOOLEAN :
                            sent'[h] = sent[h] \o
                                (IF e.msgType = "text" /\ ~pw.isNull /\ e.text = pw.s
                                 THEN <<Msg(h, "reply", e.userId, "none",
                                            "Password accepted. Welcome!", 0, <<>>, ok1)>>
                                 ELSE <<Msg(h, "reply", e.userId, "none",
                                            "Incorrect password.", 0, <<>>, ok1),
                                        Msg(h, "kick", e.userId, handlers[h].vdata.groupId,
                                            "Incorrect password provided.", 0, <<>>, ok2)>>)]_vars

\* u1 was prompted while the password was "letmein"; it is "open" now, and
\* the answer "letmein" was rejected
C28_Witness ==
    /\ Registered("u1", "g1")
    /\ store["g1"].password = Password(Open)
    /\ \E h \in H : /\ handlers[h].ev = DirectText("u1", Letmein)
                    /\ handlers[h].pc = "done"
                    /\ Said(h, "Incorrect password.")
                    /\ Kicked(h)

\* C29: a group text whose sender is on the user blacklist of the row read
\* for it gets exactly one call, the kick of its sender, and ends there,
\* whatever the text is: the handler goes nowhere beyond the blacklist test,
\* and store, pending verifications and timers are as before.
C29_BlacklistedSenderOnlyKicked ==
    /\ [](\A h \in H :
            (GroupMessage(h) /\ handlers[h].ev.userId \in store[handlers[h].ev.groupId].users)
                => /\ handlers[h].pc \in {"handleMessage_82", "done"}
                   /\ Len(sent[h]) <= 1
                   /\ handlers[h].pc = "done" => Len(sent[h]) = 1)
    /\ [][\A h \in H :
            (Resumes(h, "handleMessage_82")
             /\ handlers[h].ev.userId \in handlers[h].row.users)
                => /\ handlers'[h].pc = "done"
                   /\ KicksSender(h)
                   /\ sent'[h][Len(sent'[h])].group = handlers[h].ev.groupId
                   /\ UNCHANGED <<store, pendingVerifications, timers>>]_vars

C29_Witness ==
    /\ \E h \in H : /\ handlers[h].ev = GroupText("g1", "u2", CmdSetAdmin, <<>>)
                    /\ sent[h] = <<Msg(h, "kick", "u2", "g1", "User is on the blacklist.",
                                       0, <<>>, TRUE)>>
    /\ \E h \in H : /\ handlers[h].ev.userId = "u2" /\ handlers[h].ev.text # CmdSetAdmin
                    /\ handlers[h].pc = "done" /\ Kicked(h)
    /\ store = WordStore

\* C30: no user is at once in the admins and in the blacklisted users of a
\* group.
C30_AdminsNotBlacklisted ==
    \A g \in Groups : store[g].admins \cap store[g].users = {}

\* C31: every stored blacklist word is a non-empty lowercase string, and a
\* kick of the word check is for a non-empty stored word that the lowercased
\* text contains.
C31_WordsNonEmptyLowercase ==
    /\ [](\A g \in Groups : \A i \in 1..Len(store[g].words) :
            store[g].words[i] # <<>> /\ store[g].words[i] = ToLowerCase(store[g].words[i]))
    /\ [][\A h \in H :
            (Resumes(h, "checkMessageForBlacklist_368") /\ Len(sent'[h]) > Len(sent[h]))
                => \E i \in 1..Len(handlers[h].row.words) :
                        /\ handlers[h].row.words[i] # <<>>
                        /\ Contains(h, handlers[h].row.words[i])]_vars

\* C32: when a handler has pushed the message that the user ID was added to
\* the blacklist but could not be removed from the group, the mentioned user
\* is in the stored blacklisted users of that group.
C32_DegradedMeansBlacklisted ==
    \A h \in H :
        (sent[h] # <<>>
         /\ Said(h, "User ID added to blacklist, but could not be removed from group (may have already left)."))
            => handlers[h].ev.mention[1] \in store[handlers[h].ev.groupId].users

\* C33: while the admins of a group are empty, its password is null, its
\* timeout is the default and its blacklisted words and users are empty.
C33_DefaultsBeforeBootstrap ==
    \A g \in Groups :
        store[g].admins = {}
            => /\ store[g].password = NullPassword
               /\ store[g].timeout = DEFAULT_PASSWORD_TIMEOUT_MINUTES
               /\ store[g].words = <<>>
               /\ store[g].users = {}

\* a command sent before the bootstrap has ended with nothing sent, the row
\* exists and has no admin
C33_Witness ==
    /\ store["g1"] = DefaultRow
    /\ \E h \in H :
            /\ handlers[h].ev = GroupText("g1", "u1", CmdSetPassword \o <<" ">> \o Open, <<>>)
            /\ handlers[h].pc = "done"
            /\ sent[h] = <<>>

\* C34: when the read of the settings fails for a password attempt, the
\* handler ends with no call issued, and the pending verifications, the
\* timers and the store are as they were.
C34_FailedFetchKeepsEntry ==
    [][\A h \in H :
        (Attempting(h) /\ handlers[h].db = "err" /\ handlers'[h] # handlers[h])
            => /\ handlers'[h].pc = "done"
               /\ UNCHANGED <<pendingVerifications, timers, store, sent, fired>>]_vars

\* an attempt of u1 ended without a call after its read failed; the retry for
\* the same verification was accepted
C34_Witness ==
    \E h, k \in H :
        /\ h # k
        /\ handlers[h].pc = "done" /\ handlers[h].vdata.present /\ sent[h] = <<>>
        /\ Attempts(k, handlers[h].vdata.timeoutId)
        /\ Said(k, "Password accepted. Welcome!")

====
